---- MODULE Spec2Model ----
(***************************************************************************)
(* esgsmart: readiness polling of the page component (the unified fetch    *)
(* of summary + benchmark + gap) and the server routes that read the       *)
(* artifacts from DBFS.                                                    *)
(*                                                                         *)
(* Spec      - the page component: upload/invoke, resetState, the polling  *)
(*             effect with its tick loop, retryFetch, and the responses    *)
(*             of the unified fetch arriving in any order.                 *)
(* FairSpec  - Spec with timers firing and responses arriving fairly.      *)
(* RouteSpec - one request served by the unified fetch route, the gap      *)
(*             route or the benchmark route, one DBFS read per step.       *)
(* PagedSpec - the paged read loop of the DBFS helpers, one request per    *)
(*             step.                                                       *)
(* CalcSpec  - the pure functions: benchmark lookup, trajectory            *)
(*             derivation and interpolation, percentage normalisation,     *)
(*             peer statistics, ambition, gap statistics, highlights, the  *)
(*             invoke / fetch round trip.                                  *)
(* InvokeSpec - one request served by the invoke route, one upstream call  *)
(*             per step.                                                   *)
(* RetrySpec - one chunk request of the dbfs-read route through            *)
(*             fetchWithRetry, one attempt per step.                       *)
(* ChatSpec  - the chat of the page component: send, response, typewriter  *)
(*             updates, resetState.                                        *)
(* CardSpec  - summaryRow replacements and the memoized key cards.         *)
(***************************************************************************)
EXTENDS Integers, Sequences, FiniteSets, TLC

\* ------------------------------------------------------------------------
\* Bounds
\* ------------------------------------------------------------------------
NumIds == 2
MaxInFlight == 2

Null == 0
Ids == 1..NumIds
\* batch paths end in a randomUUID: every invoke returns a path that no
\* request still in flight carries, named here by the least unused number
BatchPaths == 1..(MaxInFlight + 1)

VARIABLES
  \* ---- page component state (useState) ----
  uploadedFile,   \* TRUE iff a file is held (results view rendered)
  busy,           \* invoke request in flight
  pdfId,          \* Null or the current document id
  batchPath,      \* Null or the batch path returned by invoke
  allReady,
  summaryRow,     \* Null or the id whose summary is stored
  bench,          \* Null or the id whose benchmark is stored
  gapData,        \* Null or the id whose gap result is stored
  fetching,
  \* ---- asynchronous environment of the page ----
  inflight,       \* unified fetch requests awaiting their response
  timers,         \* pending setTimeout(tick, POLL_MS) callbacks
  answersReady,   \* ids for which the store now always answers ready.all
  \* ---- history ----
  lastTickFetch,  \* the fetch the poller issued in the last step, if any
  lastDelivery,   \* outcome of the response applied in the last step
  lastCleared     \* the last step's cleanup cleared a pending timer

VARIABLES
  \* ---- one request served by a server route ----
  route,          \* "none", "fetch", "gap" or "benchmark"
  rpc,            \* "idle", "summary", "bench", "cand" or "done"
  reqId,          \* params.pdfId
  summaryData,    \* fetch route: summaryData
  benchmarkResult,\* fetch route: benchmarkResult
  gapResult,      \* fetch route: gapResult
  cand,           \* index of the next candidate path
  reads,          \* the DBFS reads made so far: path, file met, result
  resp            \* the HTTP response of the route

routeVars == <<route, rpc, reqId, summaryData, benchmarkResult, gapResult,
               cand, reads, resp>>

VARIABLES
  \* ---- a paged DBFS read in progress (the while loop of the helpers) ----
  paged,          \* file size, offset, requests made, payload, position
  \* ---- the last evaluation of a pure function of the UI or a route ----
  calc            \* its name, its input and its result

VARIABLES
  \* ---- one request served by the invoke route ----
  inv,            \* position, upstream calls made so far, job id, response
  \* ---- one chunk request of the dbfs-read route (fetchWithRetry) ----
  retry,          \* attempt index, upstream answers met, result, response
  \* ---- the chat of the page component ----
  chat,           \* messages, chat requests in flight, session number
  \* ---- the summary record and the memoized key cards ----
  cards           \* summary fields, last dependencies, memoized kcards

auxVars == <<inv, retry, chat, cards>>

pureVars == <<paged, calc, auxVars>>

clientVars == <<uploadedFile, busy, pdfId, batchPath, allReady, summaryRow,
                bench, gapData, fetching, inflight, timers, answersReady,
                lastTickFetch, lastDelivery, lastCleared>>

NoFetch == [id |-> Null, batch |-> Null]
\* "unconfigured" is the 500 { error: "Missing env: ..." } of the fetch route;
\* "error" any other failure.  doFetchAll throws on both (!r.ok).
Outcomes == {"ready", "notready", "error", "unconfigured"}

\* The closure of one run of the polling effect: the pdfId, batchPath and
\* allReady it captured and its `cancelled` flag.
TickReq(id, batch, ar) ==
  [src |-> "tick", id |-> id, batch |-> batch, ar |-> ar, cancelled |-> FALSE]

RetryReq(id, batch) ==
  [src |-> "retry", id |-> id, batch |-> batch, ar |-> FALSE, cancelled |-> FALSE]

Closure(req) == [id |-> req.id, batch |-> req.batch, ar |-> req.ar,
                 cancelled |-> req.cancelled]

RemoveAt(s, i) == [j \in 1..(Len(s) - 1) |-> IF j < i THEN s[j] ELSE s[j + 1]]

\* ------------------------------------------------------------------------
\* doFetchAll: what a response does to the stored artifacts
\* ------------------------------------------------------------------------
Stored == [allReady |-> allReady, summaryRow |-> summaryRow,
           bench |-> bench, gapData |-> gapData]

ApplyResponse(st, req, outcome) ==
  IF outcome = "ready"
    THEN [allReady |-> TRUE, summaryRow |-> req.id, bench |-> req.id,
          gapData |-> req.id]
  ELSE IF outcome = "notready"
    THEN [st EXCEPT !.allReady = FALSE]
  ELSE st

\* ------------------------------------------------------------------------
\* tick: the part after `await doFetchAll(...)`
\* ------------------------------------------------------------------------
TickAfterFetchNoCatch(req, outcome, ts) ==
  IF req.src = "tick" /\ ~req.cancelled /\ ~req.ar
       /\ outcome \notin {"error", "unconfigured"}
    THEN ts \cup {Closure(req)}
    ELSE ts

TickAfterFetch(req, outcome, ts) ==
  IF req.src = "tick" /\ ~req.cancelled /\ ~req.ar
    THEN ts \cup {Closure(req)}
    ELSE ts

\* ------------------------------------------------------------------------
\* The cleanup function returned by the polling effect
\* ------------------------------------------------------------------------
CleanupMissing(reqs, ts) == [inflight |-> reqs, timers |-> ts]

Cleanup(reqs, ts) ==
  [inflight |-> [i \in DOMAIN reqs |->
                   IF reqs[i].src = "tick"
                     THEN [reqs[i] EXCEPT !.cancelled = TRUE]
                     ELSE reqs[i]],
   timers |-> {t \in ts : t.cancelled}]

\* The polling effect, run after a commit in which pdfId, batchPath or
\* allReady may have changed: cleanup of the previous run, then tick().
PollingEffect(newPdf, newBatch, newAR, reqs, ts, fetchingAfter) ==
  LET changed == <<newPdf, newBatch, newAR>> # <<pdfId, batchPath, allReady>>
      cl == IF changed /\ pdfId # Null
              THEN Cleanup(reqs, ts)
              ELSE [inflight |-> reqs, timers |-> ts]
      start == changed /\ newPdf # Null
  IN /\ inflight' = IF start
                      THEN Append(cl.inflight, TickReq(newPdf, newBatch, newAR))
                      ELSE cl.inflight
     /\ Len(inflight') <= MaxInFlight
     /\ timers' = cl.timers
     /\ fetching' = IF start THEN TRUE ELSE fetchingAfter
     /\ lastTickFetch' = IF start THEN [id |-> newPdf, batch |-> newBatch]
                                  ELSE NoFetch
     /\ lastCleared' = (cl.timers # ts)

\* invoke: batch_${crypto.randomUUID()}.json
FreshBatch ==
  LET used == {inflight[i].batch : i \in DOMAIN inflight}
      free == BatchPaths \ used
  IN CHOOSE b \in free : \A c \in free : b <= c

\* resetState followed by the commit
ResetState ==
  /\ pdfId' = Null
  /\ batchPath' = Null
  /\ allReady' = FALSE
  /\ summaryRow' = Null
  /\ bench' = Null
  /\ gapData' = Null
  /\ PollingEffect(Null, Null, FALSE, inflight, timers, fetching)

\* ------------------------------------------------------------------------
\* Actions of the page component
\* ------------------------------------------------------------------------
\* handleFileUpload / handleFileUploadNew up to the await of invoke
HandleFileUpload ==
  /\ UNCHANGED <<routeVars, pureVars>>
  /\ ~busy
  /\ uploadedFile' = TRUE
  /\ busy' = TRUE
  /\ ResetState
  /\ lastDelivery' = "none"
  /\ UNCHANGED answersReady

\* invoke answered: setPdfId, setBatchPath (one commit)
InvokeOk(id) ==
  /\ UNCHANGED <<routeVars, pureVars>>
  /\ busy
  /\ busy' = FALSE
  /\ pdfId' = id
  /\ batchPath' = FreshBatch
  /\ PollingEffect(id, FreshBatch, allReady, inflight, timers, fetching)
  /\ lastDelivery' = "none"
  /\ UNCHANGED <<uploadedFile, allReady, summaryRow, bench, gapData, answersReady>>

InvokeFailed ==
  /\ UNCHANGED <<routeVars, pureVars>>
  /\ busy
  /\ busy' = FALSE
  /\ uploadedFile' = FALSE
  /\ lastTickFetch' = NoFetch
  /\ lastDelivery' = "none"
  /\ lastCleared' = FALSE
  /\ UNCHANGED <<pdfId, batchPath, allReady, summaryRow, bench, gapData,
                 fetching, inflight, timers, answersReady>>

HandleBackToUpload ==
  /\ UNCHANGED <<routeVars, pureVars>>
  /\ uploadedFile
  /\ uploadedFile' = FALSE
  /\ ResetState
  /\ lastDelivery' = "none"
  /\ UNCHANGED <<busy, answersReady>>

\* Retry button: rendered with the results view, disabled={!pdfId || fetching}
RetryFetch ==
  /\ UNCHANGED <<routeVars, pureVars>>
  /\ uploadedFile
  /\ pdfId # Null
  /\ ~fetching
  /\ Len(inflight) < MaxInFlight
  /\ inflight' = Append(inflight, RetryReq(pdfId, batchPath))
  /\ fetching' = TRUE
  /\ lastTickFetch' = NoFetch
  /\ lastDelivery' = "none"
  /\ lastCleared' = FALSE
  /\ UNCHANGED <<uploadedFile, busy, pdfId, batchPath, allReady, summaryRow,
                 bench, gapData, timers, answersReady>>

\* setTimeout(tick, POLL_MS) fires: tick()
TimerFire(t) ==
  /\ UNCHANGED <<routeVars, pureVars>>
  /\ t \in timers
  /\ timers' = timers \ {t}
  /\ IF t.cancelled
       THEN /\ lastTickFetch' = NoFetch
            /\ UNCHANGED <<inflight, fetching>>
       ELSE /\ Len(inflight) < MaxInFlight
            /\ inflight' = Append(inflight, TickReq(t.id, t.batch, t.ar))
            /\ fetching' = TRUE
            /\ lastTickFetch' = [id |-> t.id, batch |-> t.batch]
  /\ lastDelivery' = "none"
  /\ lastCleared' = FALSE
  /\ UNCHANGED <<uploadedFile, busy, pdfId, batchPath, allReady, summaryRow,
                 bench, gapData, answersReady>>

\* The response of one unified fetch arrives: rest of doFetchAll, then the
\* rest of tick, then the commit with the polling effect.
Deliver(i, outcome) ==
  /\ UNCHANGED <<routeVars, pureVars>>
  /\ i \in DOMAIN inflight
  /\ inflight[i].id \in answersReady => outcome = "ready"
  /\ LET req == inflight[i]
         st == ApplyResponse(Stored, req, outcome)
         ts == TickAfterFetch(req, outcome, timers)
     IN /\ allReady' = st.allReady
        /\ summaryRow' = st.summaryRow
        /\ bench' = st.bench
        /\ gapData' = st.gapData
        /\ PollingEffect(pdfId, batchPath, st.allReady,
                         RemoveAt(inflight, i), ts, FALSE)
  /\ lastDelivery' = outcome
  /\ UNCHANGED <<uploadedFile, busy, pdfId, batchPath, answersReady>>

\* The external pipeline has produced all three artifacts of `id`
ArtifactsComplete(id) ==
  /\ UNCHANGED <<routeVars, pureVars>>
  /\ id \notin answersReady
  /\ answersReady' = answersReady \cup {id}
  /\ lastTickFetch' = NoFetch
  /\ lastDelivery' = "none"
  /\ lastCleared' = FALSE
  /\ UNCHANGED <<uploadedFile, busy, pdfId, batchPath, allReady, summaryRow,
                 bench, gapData, fetching, inflight, timers>>

ClientInit ==
  /\ uploadedFile = FALSE
  /\ busy = FALSE
  /\ pdfId = Null
  /\ batchPath = Null
  /\ allReady = FALSE
  /\ summaryRow = Null
  /\ bench = Null
  /\ gapData = Null
  /\ fetching = FALSE
  /\ inflight = <<>>
  /\ timers = {}
  /\ answersReady = {}
  /\ lastTickFetch = NoFetch
  /\ lastDelivery = "none"
  /\ lastCleared = FALSE

TimerFires == \E t \in timers : TimerFire(t)
Delivers == \E i \in DOMAIN inflight : \E o \in Outcomes : Deliver(i, o)

ClientNext ==
  \/ HandleFileUpload
  \/ \E id \in Ids : InvokeOk(id)
  \/ InvokeFailed
  \/ HandleBackToUpload
  \/ RetryFetch
  \/ TimerFires
  \/ Delivers
  \/ \E id \in Ids : ArtifactsComplete(id)


\* ========================================================================
\* Server routes
\* ========================================================================
\* JSON values.  JNull is both a parsed `null` and the JS null of the code.
NoId == 0
JNull == [t |-> "null"]
RowWith(a, b, c) == [t |-> "object", pdf_id |-> a, json_schema |-> b, metadata |-> c]
Row(id) == RowWith(id, NoId, NoId)
JArray(items) == [t |-> "array", items |-> items]
\* a JSON string literal whose content is the given lines
JStr(lines) == [t |-> "string", lines |-> lines]
Garbage == [t |-> "garbage"]

\* What DBFS does when a path is read: the request throws (network), it
\* answers a non-OK status, or it answers 200 with data that decodes to a
\* text (a sequence of lines, each a JSON value or garbage; <<>> is the
\* empty file).
Throws == [kind |-> "throws"]
Status(n) == [kind |-> "status", status |-> n]
Data(text) == [kind |-> "data", text |-> text]

ErrorStatuses == {404, 403, 500}
ArtifactTexts == {<<>>, <<Garbage>>, <<JNull>>} \cup {<<Row(i)>> : i \in Ids}
BatchTexts ==
  {<<>>, <<Garbage>>, <<JNull>>}
    \cup {<<Row(i)>> : i \in Ids \cup {NoId}}
    \cup {<<JArray(<<Row(i), Row(j)>>)>> : i, j \in Ids}
    \cup {<<Row(i), Row(j)>> : i, j \in Ids}
    \cup {<<RowWith(NoId, i, NoId)>> : i \in Ids}
    \cup {<<RowWith(NoId, NoId, i)>> : i \in Ids}
    \cup {<<JStr(<<Row(i), Row(j)>>)>> : i, j \in Ids}
    \cup {<<JStr(<<Row(1), Garbage>>)>>}
ArtifactFiles == {Throws} \cup {Status(n) : n \in ErrorStatuses}
                   \cup {Data(t) : t \in ArtifactTexts}
BatchFiles == {Throws} \cup {Status(n) : n \in ErrorStatuses}
                \cup {Data(t) : t \in BatchTexts}

\* JSON.parse of a text: one JSON value, nothing else
JSONParse(text) ==
  IF Len(text) = 1 /\ text[1] # Garbage
    THEN [ok |-> TRUE, value |-> text[1]]
    ELSE [ok |-> FALSE, value |-> JNull]

\* Results of the read helpers.  `thrown` marks an exception leaving the
\* helper.
ReadOk(v) == [ok |-> TRUE, status |-> 200, data |-> v, thrown |-> FALSE]
ReadFail(n) == [ok |-> FALSE, status |-> n, data |-> JNull, thrown |-> FALSE]
ReadThrown == [ok |-> FALSE, status |-> 0, data |-> JNull, thrown |-> TRUE]

\* fetch route: dbfsReadJSON, the whole body inside try/catch
DbfsReadJSONNoCatch(file) ==
  IF file.kind = "throws" THEN ReadThrown
  ELSE IF file.kind = "status" THEN ReadFail(file.status)
  ELSE IF file.text = <<>> THEN ReadFail(404)
  ELSE IF JSONParse(file.text).ok THEN ReadOk(JSONParse(file.text).value)
  ELSE ReadThrown

DbfsReadJSON(file) ==
  IF file.kind = "throws" THEN ReadFail(500)
  ELSE IF file.kind = "status" THEN ReadFail(file.status)
  ELSE IF file.text = <<>> THEN ReadFail(404)
  ELSE IF JSONParse(file.text).ok THEN ReadOk(JSONParse(file.text).value)
  ELSE ReadFail(500)

\* gap route: dbfsRead
GapDbfsRead(file) ==
  IF file.kind = "throws" THEN ReadThrown
  ELSE IF file.kind = "status" THEN ReadFail(file.status)
  ELSE IF file.text = <<>> THEN ReadFail(500)
  ELSE IF JSONParse(file.text).ok THEN ReadOk(JSONParse(file.text).value)
  ELSE ReadFail(500)

\* benchmark route: dbfsReadJson
BenchDbfsReadJson(file) ==
  IF file.kind = "throws" THEN ReadThrown
  ELSE IF file.kind = "status" THEN ReadFail(file.status)
  ELSE IF JSONParse(file.text).ok THEN ReadOk(JSONParse(file.text).value)
  ELSE ReadFail(502)

\* p.pdf_id || p?.json_schema?.pdf_id || p?.metadata?.pdf_id
RowPdfId(p) ==
  IF p.pdf_id # NoId THEN p.pdf_id
  ELSE IF p.json_schema # NoId THEN p.json_schema
  ELSE p.metadata

\* fetch route: readSummaryFromBatch.  An array is the predictions; a
\* JSON string is split into lines and each line parsed; anything else is
\* the single prediction.  JSON.parse of a line and p.pdf_id of a null
\* element throw; the catch returns null.
ReadSummaryFromBatch(file, id) ==
  LET result == DbfsReadJSON(file)
      isStr == result.data.t = "string"
      lineThrows == isStr /\ \E k \in DOMAIN result.data.lines :
                               result.data.lines[k] = Garbage
      predictions == IF result.data.t = "array" THEN result.data.items
                     ELSE IF isStr THEN result.data.lines
                     ELSE <<result.data>>
      hit(k) == predictions[k] = JNull \/ RowPdfId(predictions[k]) = id
      hits == {k \in DOMAIN predictions : hit(k)}
      first == CHOOSE k \in hits : \A m \in hits : k <= m
  IN IF ~result.ok \/ lineThrows THEN JNull
     ELSE IF hits = {} THEN JNull
     ELSE predictions[first]

\* Candidate paths, ${dir}/... with the pdfId filled in
FetchBatchPath == "batch_path"
FetchBenchPath == "benchDir/ID.json"
GapPatterns == <<"gapDir/severity_ID.json", "gapDir/ID.json", "gapDir/gap_ID.json">>
GapCandidates == <<"gapDir/severity_ID.json", "gapDir/ID.json", "gapDir/gap_ID.json">>
BenchCandidates == <<"benchDir/benchmark_ID.json", "benchDir/ID.json",
                     "benchDir/ID/benchmark.json">>

NoResp == [status |-> 0, body |-> [none |-> TRUE]]
NoResult == ReadFail(404)
ReadEntry(path, file, res) == [path |-> path, file |-> file, res |-> res]

\* fetch route: the ready object and the 200 response
FetchResponse(sd, br, gr) ==
  LET rs == sd # JNull
      rb == br.ok
      rg == gr.ok
  IN [status |-> 200,
      body |-> [ready |-> [summary |-> rs, benchmark |-> rb, gap |-> rg,
                           all |-> rs /\ rb /\ rg],
                summary |-> sd,
                benchmark |-> IF br.ok THEN br.data ELSE JNull,
                gap |-> IF gr.ok THEN gr.data ELSE JNull]]

ErrorResponse(n, msg) == [status |-> n, body |-> [error |-> msg]]

\* A request arrives.  need() throws in the fetch route when the
\* configuration is missing; the gap and benchmark routes answer 400.
RouteStart(r, configured, id, hasBatch) ==
  /\ UNCHANGED <<clientVars, pureVars>>
  /\ rpc = "idle"
  /\ route' = r
  /\ reqId' = id
  /\ cand' = 1
  /\ IF ~configured
       THEN /\ rpc' = "done"
            /\ resp' = IF r = "fetch" THEN ErrorResponse(500, "Missing env")
                       ELSE ErrorResponse(400, "Databricks configuration missing")
       ELSE /\ rpc' = IF r = "fetch" THEN (IF hasBatch THEN "summary" ELSE "bench")
                      ELSE "cand"
            /\ resp' = NoResp
  /\ UNCHANGED <<summaryData, benchmarkResult, gapResult, reads>>

\* fetch route: summaryData = await readSummaryFromBatch(...)
FetchReadSummary(file) ==
  /\ UNCHANGED <<clientVars, pureVars>>
  /\ route = "fetch" /\ rpc = "summary"
  /\ summaryData' = ReadSummaryFromBatch(file, reqId)
  /\ reads' = Append(reads, ReadEntry(FetchBatchPath, file, DbfsReadJSON(file)))
  /\ rpc' = "bench"
  /\ UNCHANGED <<route, reqId, benchmarkResult, gapResult, cand, resp>>

\* fetch route: benchmarkResult = await dbfsReadJSON(`${benchDir}/${pdfId}.json`)
FetchReadBenchmark(file) ==
  /\ UNCHANGED <<clientVars, pureVars>>
  /\ route = "fetch" /\ rpc = "bench"
  /\ LET res == DbfsReadJSON(file)
     IN /\ reads' = Append(reads, ReadEntry(FetchBenchPath, file, res))
        /\ IF res.thrown
             THEN /\ rpc' = "done"
                  /\ resp' = ErrorResponse(500, "Fetch failed")
                  /\ UNCHANGED benchmarkResult
             ELSE /\ rpc' = "cand"
                  /\ benchmarkResult' = res
                  /\ UNCHANGED resp
  /\ UNCHANGED <<route, reqId, summaryData, gapResult, cand>>

\* fetch route: one iteration of `for (const path of gapPatterns)`, with
\* the rest of the handler when the loop ends
FetchReadGap(file) ==
  /\ UNCHANGED <<clientVars, pureVars>>
  /\ route = "fetch" /\ rpc = "cand"
  /\ LET res == DbfsReadJSON(file)
         last == res.ok \/ cand = Len(GapPatterns)
         gr == IF res.ok THEN res ELSE gapResult
     IN /\ reads' = Append(reads, ReadEntry(GapPatterns[cand], file, res))
        /\ IF res.thrown
             THEN /\ rpc' = "done"
                  /\ resp' = ErrorResponse(500, "Fetch failed")
                  /\ UNCHANGED <<gapResult, cand>>
             ELSE /\ gapResult' = gr
                  /\ cand' = IF last THEN cand ELSE cand + 1
                  /\ rpc' = IF last THEN "done" ELSE "cand"
                  /\ resp' = IF last THEN FetchResponse(summaryData, benchmarkResult, gr)
                                     ELSE resp
  /\ UNCHANGED <<route, reqId, summaryData, benchmarkResult>>

\* gap and benchmark routes: one iteration of `for (const path of candidates)`
CandidateRead(r, candidates, res, file, notFoundMsg) ==
  /\ UNCHANGED <<clientVars, pureVars>>
  /\ route = r /\ rpc = "cand"
  /\ reads' = Append(reads, ReadEntry(candidates[cand], file, res))
  /\ IF res.thrown
       THEN /\ rpc' = "done"
            /\ resp' = ErrorResponse(500, "Unexpected server error")
            /\ UNCHANGED cand
     ELSE IF res.ok
       THEN /\ rpc' = "done"
            /\ resp' = [status |-> 200,
                        body |-> [ok |-> TRUE, artifact |-> res.data,
                                  path |-> candidates[cand]]]
            /\ UNCHANGED cand
     ELSE IF res.status # 404
       THEN /\ rpc' = "done"
            /\ resp' = [status |-> res.status,
                        body |-> [error |-> "DBFS read failed",
                                  pathTried |-> candidates[cand]]]
            /\ UNCHANGED cand
     ELSE IF cand = Len(candidates)
       THEN /\ rpc' = "done"
            /\ resp' = [status |-> 404, body |-> [notFound |-> TRUE, message |-> notFoundMsg]]
            /\ UNCHANGED cand
     ELSE /\ cand' = cand + 1
          /\ UNCHANGED <<rpc, resp>>
  /\ UNCHANGED <<route, reqId, summaryData, benchmarkResult, gapResult>>

GapRouteRead(file) ==
  CandidateRead("gap", GapCandidates, GapDbfsRead(file), file,
                "Gap artifact not found yet")

BenchRouteRead(file) ==
  CandidateRead("benchmark", BenchCandidates, BenchDbfsReadJson(file), file,
                "Benchmark artifact not found yet")

RouteInit ==
  /\ route = "none"
  /\ rpc = "idle"
  /\ reqId = NoId
  /\ summaryData = JNull
  /\ benchmarkResult = NoResult
  /\ gapResult = NoResult
  /\ cand = 1
  /\ reads = <<>>
  /\ resp = NoResp

RouteNext ==
  \/ \E r \in {"fetch", "gap", "benchmark"} : \E c, b \in BOOLEAN : \E id \in Ids :
       RouteStart(r, c, id, b)
  \/ \E f \in BatchFiles : FetchReadSummary(f)
  \/ \E f \in ArtifactFiles : FetchReadBenchmark(f)
  \/ \E f \in ArtifactFiles : FetchReadGap(f)
  \/ \E f \in ArtifactFiles : GapRouteRead(f)
  \/ \E f \in ArtifactFiles : BenchRouteRead(f)

\* ------------------------------------------------------------------------
\* The paged read of a DBFS file (fetch route dbfsReadJSON, dbfs-read route)
\* ------------------------------------------------------------------------
MaxChunks == 2
MaxExtra == 8

CHUNK == 1000000

Min(a, b) == IF a <= b THEN a ELSE b

\* sizes around every multiple of CHUNK, the empty file included
FileSizes ==
  {k * CHUNK + d : k \in 0..MaxChunks, d \in 0..MaxExtra}
    \cup {k * CHUNK - d : k \in 1..MaxChunks, d \in 1..MaxExtra}

PagedImpls == {"fetch", "dbfs-read"}

\* GET /api/2.0/dbfs/read?path&offset&length=CHUNK on a file of n bytes:
\* bytes_read and the base64 of those bytes, named by the range it encodes
DbfsServe(n, o) ==
  LET b == IF o >= n THEN 0 ELSE Min(CHUNK, n - o)
  IN [bytes_read |-> b, data |-> [offset |-> o, bytes |-> b]]

PagedIdle == [pc |-> "idle", impl |-> "none", n |-> 0, offset |-> 0,
              requests |-> <<>>, payload |-> <<>>, result |-> "none"]

\* after the loop: !base64All is "Empty file" (404) in the fetch route and
\* an empty text in the dbfs-read route; otherwise the payload is decoded
PagedResult(impl, payload) ==
  IF payload # <<>> THEN "decoded"
  ELSE IF impl = "fetch" THEN "emptyFile404" ELSE "emptyText"

PagedStart(impl, n) ==
  /\ UNCHANGED <<clientVars, routeVars, calc, auxVars>>
  /\ paged.pc = "idle"
  /\ paged' = [PagedIdle EXCEPT !.pc = "loop", !.impl = impl, !.n = n]

\* one iteration of while (true): request at offset; break on an empty
\* chunk; base64All += chunk; offset += bytesRead; break on a short chunk
\* (PagedRequestNoShortBreak: without `if (bytesRead < CHUNK) break`)
PagedRequestNoShortBreak ==
  /\ UNCHANGED <<clientVars, routeVars, calc, auxVars>>
  /\ paged.pc = "loop"
  /\ LET j == DbfsServe(paged.n, paged.offset)
         reqs == Append(paged.requests, paged.offset)
     IN IF j.bytes_read = 0
          THEN paged' = [paged EXCEPT !.requests = reqs, !.pc = "done",
                           !.result = PagedResult(paged.impl, paged.payload)]
          ELSE paged' = [paged EXCEPT !.requests = reqs,
                           !.payload = Append(paged.payload, j.data),
                           !.offset = paged.offset + j.bytes_read]

PagedRequest ==
  /\ UNCHANGED <<clientVars, routeVars, calc, auxVars>>
  /\ paged.pc = "loop"
  /\ LET j == DbfsServe(paged.n, paged.offset)
         reqs == Append(paged.requests, paged.offset)
         pay == Append(paged.payload, j.data)
     IN IF j.bytes_read = 0
          THEN paged' = [paged EXCEPT !.requests = reqs, !.pc = "done",
                           !.result = PagedResult(paged.impl, paged.payload)]
          ELSE IF j.bytes_read < CHUNK
            THEN paged' = [paged EXCEPT !.requests = reqs, !.payload = pay,
                             !.offset = paged.offset + j.bytes_read,
                             !.pc = "done",
                             !.result = PagedResult(paged.impl, pay)]
            ELSE paged' = [paged EXCEPT !.requests = reqs, !.payload = pay,
                             !.offset = paged.offset + j.bytes_read]

PagedInit == paged = PagedIdle

PagedStarts == \E impl \in PagedImpls : \E n \in FileSizes : PagedStart(impl, n)

PagedNext ==
  \/ PagedStarts
  \/ PagedRequest

\* ------------------------------------------------------------------------
\* Numbers of the benchmark computations: exact fractions n/d, d > 0.
\* RNull (d = 0) is JavaScript null, the result of a failed conversion.
\* ------------------------------------------------------------------------
Abs(i) == IF i < 0 THEN -i ELSE i

RECURSIVE GCD(_, _)
GCD(a, b) == IF b = 0 THEN a ELSE GCD(b, a % b)

R(n, d) ==
  LET s == IF d < 0 THEN -1 ELSE 1
      g == GCD(Abs(n), Abs(d))
  IN [n |-> (s * n) \div g, d |-> (s * d) \div g]
RInt(i) == [n |-> i, d |-> 1]
RNull == [n |-> 0, d |-> 0]
IsNull(x) == x.d = 0
RAdd(a, b) == R(a.n * b.d + b.n * a.d, a.d * b.d)
RSub(a, b) == R(a.n * b.d - b.n * a.d, a.d * b.d)
RMul(a, b) == R(a.n * b.n, a.d * b.d)
RDiv(a, b) == R(a.n * b.d, a.d * b.n)
RLt(a, b) == a.n * b.d < b.n * a.d
RLe(a, b) == a.n * b.d <= b.n * a.d

\* x.toFixed(1): the nearest multiple of 1/10
ToFixed1(x) ==
  LET k == (20 * Abs(x.n) + x.d) \div (2 * x.d)
  IN R(IF x.n < 0 THEN -k ELSE k, 10)

\* Field values of the benchmark artifact.  Missing is null, undefined or
\* the empty string; Num(v) a number or its decimal string; Pct(v) the
\* string "v%"; NonNumeric a string such as "n/a".
Missing == [k |-> "missing"]
Num(v) == [k |-> "num", v |-> v]
Pct(v) == [k |-> "pct", v |-> v]
NonNumeric == [k |-> "text"]

\* Number(String(x).replace("%", "")), NaN as RNull; Number("") is 0
NumberSansPct(x) ==
  IF x.k = "missing" THEN RInt(0)
  ELSE IF x.k \in {"num", "pct"} THEN x.v
  ELSE RNull

\* Number(String(x).replace(/,/g, "")), NaN as RNull; Number("") is 0
NumberSansCommas(x) ==
  IF x.k = "missing" THEN RInt(0)
  ELSE IF x.k = "num" THEN x.v
  ELSE RNull

\* page component: asFrac
asFrac(x) ==
  LET v == NumberSansPct(x)
  IN IF x.k = "missing" THEN RNull
     ELSE IF IsNull(v) THEN RNull
     ELSE IF RLe(RInt(0), v) /\ RLe(v, RInt(1)) THEN v
     ELSE IF RLt(RInt(1), v) /\ RLe(v, RInt(100)) THEN RDiv(v, RInt(100))
     ELSE RNull

\* page component: buildPeerDisplay.pctNum (its argument is a string)
pctNum(s) ==
  LET v == NumberSansPct(s)
  IN IF s.k = "missing" THEN RNull
     ELSE IF IsNull(v) THEN RNull
     ELSE IF RLe(RInt(0), v) /\ RLe(v, RInt(1)) THEN RMul(v, RInt(100))
     ELSE IF RLt(RInt(1), v) /\ RLe(v, RInt(100)) THEN v
     ELSE RNull

\* page component: lineSeries.sf
sf(v) ==
  IF v.k = "missing" THEN RNull ELSE NumberSansCommas(v)

\* SbtiPanel: num
num(v) == NumberSansCommas(v)

\* SbtiPanel: frac
frac(x) ==
  LET n == NumberSansPct(x)
  IN IF IsNull(n) THEN RNull
     ELSE IF RLe(n, RInt(1)) THEN n ELSE RDiv(n, RInt(100))

\* SbtiPanel: pctDisp, the display string
pctDisp(x) ==
  LET n == NumberSansPct(x)
  IN IF IsNull(n) THEN Missing
     ELSE IF RLe(n, RInt(1)) THEN Pct(ToFixed1(RMul(n, RInt(100))))
     ELSE Pct(ToFixed1(n))

\* SbtiPanel: toPctNum
toPctNum(s) == NumberSansPct(s)

\* SbtiPanel: disp
disp(n) == IF IsNull(n) THEN Missing ELSE Pct(ToFixed1(n))

\* ------------------------------------------------------------------------
\* Trajectories of the company profile
\* ------------------------------------------------------------------------
MaxSpan == 3

\* Number(c.sbti_start_year): an integer year, or NaN (undefined, "n/a")
YearNaN == -1
BaseYear == 2020
StartYears == {YearNaN, BaseYear}
TargetYears == {YearNaN} \cup (BaseYear..(BaseYear + MaxSpan))

NoCompany == [company |-> FALSE]
Company(sy, ty, s1, s2, s12, t1, t2, t12, red) ==
  [company |-> TRUE, sbti_start_year |-> sy, sbti_target_year |-> ty,
   scope_1 |-> s1, scope_2 |-> s2, sbti_scope_1_2 |-> s12,
   sbti_scope_1_target |-> t1, sbti_scope_2_target |-> t2,
   sbti_scope_1_2_target |-> t12, sbti_scope_1_2_reduction_pct |-> red]

ReductionValues ==
  {Missing, NonNumeric, Num(RInt(42)), Num(R(21, 50)), Num(RInt(1)),
   Num(RInt(0)), Num(RInt(150)), Num(RInt(-5))}

Companies ==
  {NoCompany} \cup
  {Company(sy, ty, s1, s2, s12, t1, t2, t12, red) :
     sy \in StartYears, ty \in TargetYears,
     s1 \in {Missing, Num(RInt(0)), Num(RInt(100))},
     s2 \in {Missing, Num(RInt(0)), Num(RInt(50))},
     s12 \in {Missing, Num(RInt(200))},
     t1 \in {Missing, Num(RInt(40))},
     t2 \in {Missing, Num(RInt(80))},
     t12 \in {Missing, Num(RInt(90))},
     red \in ReductionValues}

\* for (let y = sy; y <= ty; y++) years.push(y)
YearsOf(sy, ty) == [i \in 1..(ty - sy + 1) |-> sy + i - 1]

\* page component: lineSeries.make
\* (makeOffByOne: t = i / years.length instead of i / (years.length - 1))
makeOffByOne(name, v0, v1, years) ==
  IF IsNull(v0) \/ IsNull(v1) THEN [name |-> name, points |-> <<>>]
  ELSE [name |-> name,
        points |->
          [i \in DOMAIN years |->
             LET t == R(i - 1, Len(years))
             IN [x |-> years[i], y |-> RAdd(v0, RMul(RSub(v1, v0), t))]]]

make(name, v0, v1, years) ==
  IF IsNull(v0) \/ IsNull(v1) THEN [name |-> name, points |-> <<>>]
  ELSE [name |-> name,
        points |->
          [i \in DOMAIN years |->
             LET den == IF Len(years) - 1 = 0 THEN 1 ELSE Len(years) - 1
                 t == R(i - 1, den)
             IN [x |-> years[i], y |-> RAdd(v0, RMul(RSub(v1, v0), t))]]]

\* page component: lineSeries, const rf = redRaw > 1 ? redRaw / 100 : redRaw
\* (rfNoPercent: without the division of a percentage by 100)
rfNoPercent(redRaw) == redRaw

rf(redRaw) ==
  IF RLt(RInt(1), redRaw) THEN RDiv(redRaw, RInt(100)) ELSE redRaw

\* page component: lineSeries
lineSeries(c) ==
  IF ~c.company THEN <<>>
  ELSE
  LET sy == c.sbti_start_year
      ty == c.sbti_target_year
      s1b == sf(c.scope_1)
      s2b == sf(c.scope_2)
      s12b0 == sf(c.sbti_scope_1_2)
      s12b == IF IsNull(s12b0) /\ ~IsNull(s1b) /\ ~IsNull(s2b)
                THEN RAdd(s1b, s2b) ELSE s12b0
      s1t0 == sf(c.sbti_scope_1_target)
      s2t0 == sf(c.sbti_scope_2_target)
      s12t0 == sf(c.sbti_scope_1_2_target)
      redRaw == sf(c.sbti_scope_1_2_reduction_pct)
      s12t1 == IF IsNull(s12t0) /\ ~IsNull(redRaw) /\ ~IsNull(s12b)
                 THEN RMul(s12b, RSub(RInt(1), rf(redRaw)))
                 ELSE s12t0
      split == /\ ~IsNull(s12t1) /\ (IsNull(s1t0) \/ IsNull(s2t0))
               /\ ~IsNull(s1b) /\ ~IsNull(s2b)
               /\ RLt(RInt(0), RAdd(s1b, s2b))
      s1t == IF split /\ IsNull(s1t0)
               THEN RMul(s12t1, RDiv(s1b, RAdd(s1b, s2b))) ELSE s1t0
      s2t == IF split /\ IsNull(s2t0)
               THEN RMul(s12t1, RDiv(s2b, RAdd(s1b, s2b))) ELSE s2t0
      s12t == IF IsNull(s12t1) /\ ~IsNull(s1t) /\ ~IsNull(s2t)
                THEN RAdd(s1t, s2t) ELSE s12t1
  IN IF sy = YearNaN \/ ty = YearNaN \/ ty <= sy THEN <<>>
     ELSE <<make("Scope 1", s1b, s1t, YearsOf(sy, ty)),
            make("Scope 2", s2b, s2t, YearsOf(sy, ty)),
            make("Scope 1+2", s12b, s12t, YearsOf(sy, ty))>>

\* SbtiPanel: lerp
lerp(a, b, sy, ty, y) ==
  IF IsNull(a) \/ IsNull(b) THEN RNull
  ELSE RAdd(a, RMul(RSub(b, a), R(y - sy, ty - sy)))

\* SbtiPanel: buildLinearSeries
buildLinearSeries(sy, ty, v) ==
  IF sy = YearNaN \/ ty = YearNaN \/ ty <= sy THEN <<>>
  ELSE [i \in 1..(ty - sy + 1) |->
          LET year == sy + i - 1
          IN [year |-> year,
              scope1 |-> lerp(v.s1b, v.s1t, sy, ty, year),
              scope2 |-> lerp(v.s2b, v.s2t, sy, ty, year),
              scope12 |-> lerp(v.s12b, v.s12t, sy, ty, year)]]

\* SbtiPanel: the chart of the component.  bench?.company || {} leaves
\* every field undefined.
SbtiChart(c) ==
  LET cc == IF c.company THEN c
            ELSE Company(YearNaN, YearNaN, Missing, Missing, Missing,
                         Missing, Missing, Missing, Missing)
      s1b == num(cc.scope_1)
      s2b == num(cc.scope_2)
      s1t == num(cc.sbti_scope_1_target)
      s2t == num(cc.sbti_scope_2_target)
      s12b == IF ~IsNull(s1b) /\ ~IsNull(s2b) THEN RAdd(s1b, s2b)
              ELSE num(cc.sbti_scope_1_2)
      red == frac(cc.sbti_scope_1_2_reduction_pct)
      s12t == IF ~IsNull(s1t) THEN s1t
              ELSE IF ~IsNull(s2t) THEN s2t
              ELSE IF ~IsNull(s12b) /\ ~IsNull(red)
                THEN RMul(s12b, RSub(RInt(1), red))
              ELSE RNull
  IN buildLinearSeries(cc.sbti_start_year, cc.sbti_target_year,
                       [s1b |-> s1b, s1t |-> s1t, s2b |-> s2b,
                        s2t |-> s2t, s12b |-> s12b, s12t |-> s12t])

\* ------------------------------------------------------------------------
\* Peer tables and their statistics
\* ------------------------------------------------------------------------
MaxPeers == 4

\* sbti_scope_1_2_reduction_pct of a peer record
PeerValues ==
  {Missing, NonNumeric, Num(RInt(10)), Num(RInt(20)), Num(RInt(30)),
   Num(RInt(40)), Num(R(1, 2)), Num(RInt(150))}
PeerLists == UNION {[1..n -> PeerValues] : n \in 0..MaxPeers}

RECURSIVE RSum(_)
RSum(s) == IF s = <<>> THEN RInt(0) ELSE RAdd(s[1], RSum(Tail(s)))

\* [...nums].sort((a, b) => a - b)
SortAsc(s) == SortSeq(s, RLt)

\* a._pct_num ?? -Infinity >= b._pct_num ?? -Infinity
GeKey(a, b) ==
  IsNull(b.pct_num) \/ (~IsNull(a.pct_num) /\ RLe(b.pct_num, a.pct_num))

\* combined.sort((a, b) => (b._pct_num ?? -Infinity) - (a._pct_num ?? -Infinity)):
\* descending and stable
RECURSIVE SortDesc(_)
SortDesc(s) ==
  IF s = <<>> THEN <<>>
  ELSE LET t == SortDesc(SubSeq(s, 1, Len(s) - 1))
           r == s[Len(s)]
           p == Cardinality({i \in DOMAIN t : GeKey(t[i], r)})
       IN SubSeq(t, 1, p) \o <<r>> \o SubSeq(t, p + 1, Len(t))

\* page component: buildPeerDisplay.  A row keeps its company name, the
\* "% Reduction" string and _pct_num (RNull when null or undefined).
buildPeerDisplay(raw) ==
  LET rows == [i \in DOMAIN raw |-> [Company |-> "peer", pct |-> raw[i]]]
      withNum == [i \in DOMAIN rows |->
                    [Company |-> rows[i].Company, pct |-> rows[i].pct,
                     pct_num |-> pctNum(rows[i].pct)]]
      parsed == SelectSeq(withNum, LAMBDA r : ~IsNull(r.pct_num))
      nums == [i \in DOMAIN parsed |-> parsed[i].pct_num]
      mean == IF Len(nums) = 0 THEN RNull ELSE RDiv(RSum(nums), RInt(Len(nums)))
      sorted == SortAsc(nums)
      n == Len(sorted)
      median == IF n = 0 THEN RNull
                ELSE IF n % 2 = 1 THEN sorted[(n - 1) \div 2 + 1]
                ELSE RDiv(RAdd(sorted[n \div 2], sorted[n \div 2 + 1]), RInt(2))
      avgRow == [Company |-> "**Average**",
                 pct |-> IF IsNull(mean) THEN Missing ELSE Pct(ToFixed1(mean)),
                 pct_num |-> mean]
      medRow == [Company |-> "**Median**",
                 pct |-> IF IsNull(median) THEN Missing ELSE Pct(ToFixed1(median)),
                 pct_num |-> median]
      combined == SortDesc(withNum \o <<avgRow, medRow>>)
  IN [i \in DOMAIN combined |->
        [combined[i] EXCEPT
           !.pct = IF ~IsNull(combined[i].pct_num)
                     THEN Pct(ToFixed1(combined[i].pct_num))
                     ELSE combined[i].pct]]

\* page component: insightText.medianOf
medianOf(rows) ==
  LET peers == SelectSeq(rows, LAMBDA r : r.Company \notin {"**Average**", "**Median**"})
      parsed == SelectSeq(peers, LAMBDA r : ~IsNull(NumberSansPct(r.pct)))
      vals == SortAsc([i \in DOMAIN parsed |-> NumberSansPct(parsed[i].pct)])
      n == Len(vals)
  IN IF n = 0 THEN RNull
     ELSE IF n % 2 = 1 THEN RDiv(vals[(n - 1) \div 2 + 1], RInt(100))
     ELSE RDiv(RDiv(RAdd(vals[n \div 2], vals[n \div 2 + 1]), RInt(2)), RInt(100))

\* SbtiPanel: normPeers
normPeers(rows) ==
  LET mapped == [i \in DOMAIN rows |-> [Company |-> "peer", pct |-> pctDisp(rows[i])]]
      kept == SelectSeq(mapped, LAMBDA x : ~IsNull(toPctNum(x.pct)))
      pctNums == [i \in DOMAIN kept |-> toPctNum(kept[i].pct)]
      avg == IF Len(pctNums) = 0 THEN RNull
             ELSE RDiv(RSum(pctNums), RInt(Len(pctNums)))
      median == IF Len(pctNums) = 0 THEN RNull
                ELSE SortAsc(pctNums)[Len(pctNums) \div 2 + 1]
  IN mapped \o <<[Company |-> "**Average**", pct |-> disp(avg)],
                 [Company |-> "**Median**", pct |-> disp(median)]>>

\* ------------------------------------------------------------------------
\* Where a benchmark is looked up
\* ------------------------------------------------------------------------
\* the files at the three benchmark candidate paths of one document
BenchStores == [DOMAIN BenchCandidates -> ArtifactFiles]

IndexOf(seq, x) == CHOOSE k \in DOMAIN seq : seq[k] = x

\* fetch route: benchmarkResult, the read of ${benchDir}/${pdfId}.json alone
FetchBenchmarkLookup(store) ==
  DbfsReadJSON(store[IndexOf(BenchCandidates, FetchBenchPath)])

\* benchmark route: the candidate loop, which answers with the first
\* candidate whose read is not a 404
BenchRouteLookup(store) ==
  LET res(k) == BenchDbfsReadJson(store[k])
      decisive == {k \in DOMAIN BenchCandidates :
                     res(k).thrown \/ res(k).ok \/ res(k).status # 404}
      first == CHOOSE k \in decisive : \A m \in decisive : k <= m
  IN IF decisive = {} THEN ReadFail(404) ELSE res(first)

\* ------------------------------------------------------------------------
\* Ambition label of the insight text (page component)
\* ------------------------------------------------------------------------
epsZero == RInt(0)
eps == R(1, 100)

\* the ambition closure of insightText; null medians are RNull
ambition(companyFrac, pcMedian, prMedian) ==
  LET aboveCountry == ~IsNull(pcMedian) /\ RLe(RAdd(pcMedian, eps), companyFrac)
      aboveRegion == ~IsNull(prMedian) /\ RLe(RAdd(prMedian, eps), companyFrac)
      belowCountry == ~IsNull(pcMedian) /\ RLe(companyFrac, RSub(pcMedian, eps))
      belowRegion == ~IsNull(prMedian) /\ RLe(companyFrac, RSub(prMedian, eps))
  IN IF IsNull(companyFrac) THEN "unclear"
     ELSE IF aboveCountry /\ aboveRegion THEN "more ambitious than both"
     ELSE IF belowCountry /\ belowRegion THEN "less ambitious than both"
     ELSE IF aboveCountry /\ belowRegion THEN "above country below region"
     ELSE IF aboveRegion /\ belowCountry THEN "above region below country"
     ELSE "roughly in line"

\* the inputs of the label as insightText computes them from the benchmark
insightText(red, peersCountry, peersRegion) ==
  LET companyFrac == asFrac(red)
      pcMedian == medianOf(buildPeerDisplay(peersCountry))
      prMedian == medianOf(buildPeerDisplay(peersRegion))
  IN [companyFrac |-> companyFrac, pcMedian |-> pcMedian,
      prMedian |-> prMedian,
      ambition |-> ambition(companyFrac, pcMedian, prMedian)]

AmbitionTargets ==
  {Missing, NonNumeric, Num(RInt(42)), Num(R(42, 100)), Num(R(83, 2)),
   Num(RInt(150))}
AmbitionPeers ==
  {<<>>, <<NonNumeric>>, <<Num(RInt(40))>>, <<Num(RInt(41))>>,
   <<Num(RInt(42))>>, <<Num(RInt(43))>>, <<Num(RInt(44))>>,
   <<Num(RInt(41)), Num(RInt(42))>>}

\* ------------------------------------------------------------------------
\* The invoke route: POST, one upstream call per step
\* ------------------------------------------------------------------------
MaxPredictions == 2

\* a prediction of the serving endpoint: an object whose id may sit at
\* pdf_id, json_schema.pdf_id, metadata.pdf_id or context.pdf_id
ServingRow(a, b, c, d) ==
  [t |-> "object", pdf_id |-> a, json_schema |-> b, metadata |-> c,
   context |-> d]
EmptyRow == ServingRow(NoId, NoId, NoId, NoId)
ServingRows ==
  {EmptyRow, JNull}
    \cup {ServingRow(i, NoId, NoId, NoId) : i \in Ids}
    \cup {ServingRow(NoId, i, NoId, NoId) : i \in Ids}
    \cup {ServingRow(NoId, NoId, i, NoId) : i \in Ids}
    \cup {ServingRow(NoId, NoId, NoId, i) : i \in Ids}
Predictions == UNION {[1..n -> ServingRows] : n \in 0..MaxPredictions}

\* bodies of a 200 answer of the serving endpoint: { predictions: [...] },
\* a bare array, or an object without a predictions array
ServingResps ==
  {[shape |-> "predictions", items |-> s] : s \in Predictions}
    \cup {[shape |-> "array", items |-> s] : s \in Predictions}
    \cup {[shape |-> "object", items |-> <<>>]}

\* first(x): x[0] ?? {} of the array or of x.predictions, else {}
First(x) ==
  IF x.shape \in {"array", "predictions"}
    THEN IF Len(x.items) = 0 \/ x.items[1] = JNull THEN EmptyRow
         ELSE x.items[1]
    ELSE EmptyRow

\* extractPdfId(row, fallback): the first id that is not null/undefined
extractPdfId(row, fallback) ==
  IF row.t # "object" THEN fallback
  ELSE IF row.pdf_id # NoId THEN row.pdf_id
  ELSE IF row.json_schema # NoId THEN row.json_schema
  ELSE IF row.metadata # NoId THEN row.metadata
  ELSE IF row.context # NoId THEN row.context
  ELSE fallback

\* the text written to the batch file, one JSON.stringify per line
Ndjson(servingResp) ==
  IF servingResp.shape \in {"array", "predictions"} THEN servingResp.items
  ELSE <<First(servingResp)>>

\* DATABRICKS_JOB_ID in the environment and JOB_ID() of it
JobEnvs == {"unset", "0", "abc", "7"}
JobNum(v) == [nan |-> FALSE, v |-> v]
JobNaN == [nan |-> TRUE, v |-> 0]
JOB_ID(env) ==
  IF env = "unset" THEN JobNum(0)
  ELSE IF env = "0" THEN JobNum(0)
  ELSE IF env = "7" THEN JobNum(7)
  ELSE JobNaN
\* !jobId
Falsy(jobId) == jobId.nan \/ jobId.v = 0

NoRunId == 0
RunIds == {11}
InvNoResp == [status |-> 0, ok |-> FALSE, pdfId |-> NoId, runId |-> NoRunId]
InvError(n) == [status |-> n, ok |-> FALSE, pdfId |-> NoId, runId |-> NoRunId]
InvOk(id, run) == [status |-> 200, ok |-> TRUE, pdfId |-> id, runId |-> run]
Step(name, ok) == [name |-> name, ok |-> ok]

InvIdle ==
  [pc |-> "idle", host |-> TRUE, jobEnv |-> "unset", pdfId |-> NoId,
   servingResp |-> [shape |-> "object", items |-> <<>>],
   resolvedPdfId |-> NoId, ndjson |-> <<>>, written |-> FALSE,
   steps |-> <<>>, resp |-> InvNoResp]

\* POST up to the first await: the ping shortcut and the pdfBytes check
InvokePost(ping, hasBytes, host, jobEnv) ==
  /\ UNCHANGED <<clientVars, routeVars, paged, calc, retry, chat, cards>>
  /\ inv.pc = "idle"
  /\ inv' = IF ping
              THEN [inv EXCEPT !.pc = "done", !.host = host, !.jobEnv = jobEnv,
                               !.resp = InvOk(NoId, NoRunId)]
            ELSE IF ~hasBytes
              THEN [inv EXCEPT !.pc = "done", !.host = host, !.jobEnv = jobEnv,
                               !.resp = InvError(400)]
            ELSE [inv EXCEPT !.pc = "text", !.host = host, !.jobEnv = jobEnv]

\* 1) pdfBytesToText and the computed pdfId
PdfBytesToText(ok, id) ==
  /\ UNCHANGED <<clientVars, routeVars, paged, calc, retry, chat, cards>>
  /\ inv.pc = "text"
  /\ inv' = IF ok
              THEN [inv EXCEPT !.pc = "serving", !.pdfId = id,
                               !.steps = Append(@, Step("text", TRUE))]
              ELSE [inv EXCEPT !.pc = "done", !.resp = InvError(500),
                               !.steps = Append(@, Step("text", FALSE))]

\* 2) callServing, first, extractPdfId and the NDJSON text; a missing
\* DATABRICKS_HOST throws before any request
CallServing(ok, servingResp) ==
  /\ UNCHANGED <<clientVars, routeVars, paged, calc, retry, chat, cards>>
  /\ inv.pc = "serving"
  /\ inv' = IF ~inv.host
              THEN [inv EXCEPT !.pc = "done", !.resp = InvError(500)]
            ELSE IF ~ok
              THEN [inv EXCEPT !.pc = "done", !.resp = InvError(500),
                               !.steps = Append(@, Step("serving", FALSE))]
            ELSE [inv EXCEPT !.pc = "put", !.servingResp = servingResp,
                             !.resolvedPdfId =
                                extractPdfId(First(servingResp), inv.pdfId),
                             !.ndjson = Ndjson(servingResp),
                             !.steps = Append(@, Step("serving", TRUE))]

\* 3) dbfsPutText
DbfsPutText(ok) ==
  /\ UNCHANGED <<clientVars, routeVars, paged, calc, retry, chat, cards>>
  /\ inv.pc = "put"
  /\ inv' = IF ok
              THEN [inv EXCEPT !.pc = "job", !.written = TRUE,
                               !.steps = Append(@, Step("put", TRUE))]
              ELSE [inv EXCEPT !.pc = "done", !.resp = InvError(500),
                               !.steps = Append(@, Step("put", FALSE))]

\* 4) runMergeJob and the 200 response; run is the run_id of the answer,
\* NoRunId when the answer has none
RunMergeJobNoJobCheck(ok, run) ==
  IF ok
    THEN [inv EXCEPT !.pc = "done", !.resp = InvOk(inv.resolvedPdfId, run),
                     !.steps = Append(@, Step("run-now", TRUE))]
    ELSE [inv EXCEPT !.pc = "done", !.resp = InvError(500),
                     !.steps = Append(@, Step("run-now", FALSE))]
runMergeJob(ok, run) ==
  IF Falsy(JOB_ID(inv.jobEnv))
    THEN [inv EXCEPT !.pc = "done",
                     !.resp = InvOk(inv.resolvedPdfId, NoRunId)]
  ELSE IF ok
    THEN [inv EXCEPT !.pc = "done", !.resp = InvOk(inv.resolvedPdfId, run),
                     !.steps = Append(@, Step("run-now", TRUE))]
  ELSE [inv EXCEPT !.pc = "done", !.resp = InvError(500),
                   !.steps = Append(@, Step("run-now", FALSE))]

RunMergeJob(ok, run) ==
  /\ UNCHANGED <<clientVars, routeVars, paged, calc, retry, chat, cards>>
  /\ inv.pc = "job"
  /\ inv' = runMergeJob(ok, run)

InvInit == inv = InvIdle

InvokePosts ==
  \E ping \in BOOLEAN, hasBytes \in BOOLEAN, host \in BOOLEAN, jobEnv \in JobEnvs :
    InvokePost(ping, hasBytes, host, jobEnv)
PdfBytesToTexts == \E ok \in BOOLEAN, id \in Ids : PdfBytesToText(ok, id)
CallServings == \E ok \in BOOLEAN, r \in ServingResps : CallServing(ok, r)
DbfsPutTexts == \E ok \in BOOLEAN : DbfsPutText(ok)
RunMergeJobs == \E ok \in BOOLEAN, run \in RunIds \cup {NoRunId} : RunMergeJob(ok, run)

InvokeNext ==
  \/ InvokePosts
  \/ PdfBytesToTexts
  \/ CallServings
  \/ DbfsPutTexts
  \/ RunMergeJobs

\* ------------------------------------------------------------------------
\* The dbfs-read route: GET, one upstream attempt of fetchWithRetry per step
\* ------------------------------------------------------------------------
MaxRetryChunks == 2
Retries == 3

\* what one fetch of a chunk meets: a 200 answer with a full, a short or an
\* empty chunk, a non-OK status, or a thrown network error
UpOk(chunk) == [kind |-> "ok", status |-> 200, chunk |-> chunk]
UpStatus(n) == [kind |-> "status", status |-> n, chunk |-> "none"]
UpThrows == [kind |-> "throws", status |-> 0, chunk |-> "none"]
UpStatuses == {404, 403, 500, 503}
Upstreams ==
  {UpOk(c) : c \in {"full", "short", "empty"}}
    \cup {UpStatus(n) : n \in UpStatuses} \cup {UpThrows}

\* one iteration i of the loop of fetchWithRetry on what fetch met: return
\* the response, go round again after the sleep, rethrow the error, or fall
\* out of the loop to `throw new Error("Max retries exceeded")`
fetchWithRetryNo404(i, up) ==
  IF up.kind = "throws"
    THEN IF i = Retries - 1 THEN "rethrow" ELSE "again"
  ELSE IF up.kind = "ok" THEN "return"
  ELSE IF i + 1 < Retries THEN "again" ELSE "maxRetries"
fetchWithRetry(i, up) ==
  IF up.kind = "throws"
    THEN IF i = Retries - 1 THEN "rethrow" ELSE "again"
  ELSE IF up.kind = "ok" \/ up.status = 404 THEN "return"
  ELSE IF i + 1 < Retries THEN "again" ELSE "maxRetries"

RetryNoResp == [status |-> 0, body |-> "none", upstream |-> 0]
\* { error: `DBFS read failed ${r.status}: ...` } with status r.status
ReadFailed(n) == [status |-> n, body |-> "DBFS read failed", upstream |-> n]
\* the outer catch: { error: err.message } with status 500
Caught(message) == [status |-> 500, body |-> message, upstream |-> 0]
BadRequest == [status |-> 400, body |-> "missing", upstream |-> 0]
\* { ok: true, kind, ... }
ReadDone(kind) == [status |-> 200, body |-> kind, upstream |-> 0]

RetryIdle ==
  [pc |-> "idle", i |-> 0, attempts |-> <<>>, chunks |-> 0,
   resp |-> RetryNoResp]

\* GET up to the loop: the environment and the path parameter
DbfsReadGet(configured, hasPath) ==
  /\ UNCHANGED <<clientVars, routeVars, paged, calc, inv, chat, cards>>
  /\ retry.pc = "idle"
  /\ retry' = IF configured /\ hasPath
                THEN [retry EXCEPT !.pc = "attempt", !.attempts = <<<<>>>>]
                ELSE [retry EXCEPT !.pc = "done", !.resp = BadRequest]

\* GET after fetchWithRetry returned r for the current chunk; json says
\* whether the decoded text parses as JSON
AfterFetch(r, log, json) ==
  LET kind == IF json THEN "json" ELSE "text"
  IN IF r.kind = "status"
       THEN [retry EXCEPT !.pc = "done", !.attempts = log,
                          !.resp = ReadFailed(r.status)]
     ELSE IF r.chunk = "empty"
       THEN [retry EXCEPT !.pc = "done", !.attempts = log,
                          !.resp = IF retry.chunks = 0 THEN ReadDone("text")
                                   ELSE ReadDone(kind)]
     ELSE IF r.chunk = "short"
       THEN [retry EXCEPT !.pc = "done", !.attempts = log,
                          !.chunks = @ + 1, !.resp = ReadDone(kind)]
     ELSE [retry EXCEPT !.i = 0, !.attempts = Append(log, <<>>),
                        !.chunks = @ + 1]

\* one fetch inside fetchWithRetry and everything that follows it up to the
\* next fetch
Attempt(up, json) ==
  /\ UNCHANGED <<clientVars, routeVars, paged, calc, inv, chat, cards>>
  /\ retry.pc = "attempt"
  /\ up = UpOk("full") => retry.chunks + 1 < MaxRetryChunks
  /\ LET c == Len(retry.attempts)
         log == [retry.attempts EXCEPT ![c] = Append(@, up)]
         step == fetchWithRetry(retry.i, up)
     IN retry' =
          IF step = "return" THEN AfterFetch(up, log, json)
          ELSE IF step = "again"
            THEN [retry EXCEPT !.i = @ + 1, !.attempts = log]
          ELSE IF step = "rethrow"
            THEN [retry EXCEPT !.pc = "done", !.attempts = log,
                               !.resp = Caught("fetch failed")]
          ELSE [retry EXCEPT !.pc = "done", !.attempts = log,
                             !.resp = Caught("Max retries exceeded")]

RetryInit == retry = RetryIdle

DbfsReadGets == \E configured \in BOOLEAN, hasPath \in BOOLEAN : DbfsReadGet(configured, hasPath)
Attempts == \E up \in Upstreams, json \in BOOLEAN : Attempt(up, json)

RetryNext ==
  \/ DbfsReadGets
  \/ Attempts

\* ------------------------------------------------------------------------
\* The chat of the page component
\* ------------------------------------------------------------------------
MaxChat == 4
MaxWords == 2
MaxSessions == 2

\* an element of chatMessages: { role, content }; sent is the session (the
\* number of resets so far) in which its request was sent.  Hole is the
\* undefined left at an index that was never assigned.
Message(role, content, sent) == [role |-> role, content |-> content, sent |-> sent]
Hole == [role |-> "undefined", content |-> "undefined", sent |-> -1]
Sorry == "Sorry, I couldn't reach the analysis service just now."

\* const updated = [...prev]; updated[assistantIndex] = m (index from 0)
SetAt(prev, assistantIndex, m) ==
  LET pos == assistantIndex + 1
      n == IF pos > Len(prev) THEN pos ELSE Len(prev)
  IN [k \in 1..n |-> IF k = pos THEN m
                     ELSE IF k <= Len(prev) THEN prev[k]
                     ELSE Hole]

\* a chat request in flight: the captured assistantIndex, the session it
\* was sent in, the words typed so far and the words of the answer
ChatReq(index, sent) == [assistantIndex |-> index, sent |-> sent, typed |-> 0, words |-> 0]

ChatIdle == [session |-> 0, messages |-> <<>>, pending |-> {}, isTyping |-> FALSE]

\* handleSendMessageInternal up to the await of fetch
HandleSendMessage ==
  /\ UNCHANGED <<clientVars, routeVars, paged, calc, inv, retry, cards>>
  /\ Len(chat.messages) + 2 <= MaxChat
  /\ LET assistantIndex == Len(chat.messages) + 1
     IN chat' = [chat EXCEPT
                   !.messages = @ \o <<Message("user", "msg", chat.session),
                                       Message("ai", "", chat.session)>>,
                   !.isTyping = TRUE,
                   !.pending = @ \cup {ChatReq(assistantIndex, chat.session)}]

\* the fetch of a request fails: catch writes the apology, finally clears
\* isTyping
ChatFailed(req) ==
  /\ UNCHANGED <<clientVars, routeVars, paged, calc, inv, retry, cards>>
  /\ req \in chat.pending
  /\ req.words = 0
  /\ chat' = [chat EXCEPT
                !.messages = SetAt(@, req.assistantIndex,
                                   Message("ai", Sorry, req.sent)),
                !.isTyping = FALSE,
                !.pending = @ \ {req}]

\* the answer of a request arrives with n words: the first round of the
\* typewriter loop
ChatAnswered(req, n) ==
  /\ UNCHANGED <<clientVars, routeVars, paged, calc, inv, retry, cards>>
  /\ req \in chat.pending
  /\ req.words = 0
  /\ chat' = [chat EXCEPT
                !.messages = SetAt(@, req.assistantIndex,
                                   Message("ai", "typed", req.sent)),
                !.isTyping = IF n = 1 THEN FALSE ELSE @,
                !.pending = IF n = 1 THEN @ \ {req}
                            ELSE (@ \ {req}) \cup
                                   {[req EXCEPT !.typed = 1, !.words = n]}]

\* a later round of the typewriter loop, after the 30 ms sleep
Typewriter(req) ==
  /\ UNCHANGED <<clientVars, routeVars, paged, calc, inv, retry, cards>>
  /\ req \in chat.pending
  /\ req.words > 0
  /\ chat' = [chat EXCEPT
                !.messages = SetAt(@, req.assistantIndex,
                                   Message("ai", "typed", req.sent)),
                !.isTyping = IF req.typed + 1 = req.words THEN FALSE ELSE @,
                !.pending = IF req.typed + 1 = req.words THEN @ \ {req}
                            ELSE (@ \ {req}) \cup
                                   {[req EXCEPT !.typed = @ + 1]}]

\* resetState, as far as the chat goes: setChatMessages([])
ChatResetState ==
  /\ UNCHANGED <<clientVars, routeVars, paged, calc, inv, retry, cards>>
  /\ chat.session < MaxSessions
  /\ chat' = [chat EXCEPT !.messages = <<>>, !.session = @ + 1]

ChatInit == chat = ChatIdle

ChatFails == \E req \in chat.pending : ChatFailed(req)
ChatAnswers == \E req \in chat.pending, n \in 1..MaxWords : ChatAnswered(req, n)
Typewriters == \E req \in chat.pending : Typewriter(req)

ChatNext ==
  \/ HandleSendMessage
  \/ ChatFails
  \/ ChatAnswers
  \/ Typewriters
  \/ ChatResetState

\* ------------------------------------------------------------------------
\* The summary record, the memoized key cards and the highlights
\* ------------------------------------------------------------------------
\* String field values: Str("") is the empty string, NumStr(v) a string
\* that Number() reads as v after commas and spaces are removed
Str(s) == [k |-> "str", s |-> s]
NumStr(v) == [k |-> "numstr", v |-> v]

\* pick(obj, keys, def) on the value found under the first alias present:
\* null and undefined give the default
pick(field, def) == IF field = Missing THEN def ELSE field

\* toNumber(v); null is RNull; Number("") is 0
toNumber(v) ==
  IF v = Missing THEN RNull
  ELSE IF v.k \in {"num", "numstr"} THEN v.v
  ELSE IF v = Str("") THEN RInt(0)
  ELSE RNull

\* formatNumber(n) of a finite n: the mantissa and the suffix
formatNumber(n) ==
  LET abs == IF n.n < 0 THEN R(-n.n, n.d) ELSE n
  IN IF RLe(RInt(1000000000), abs)
       THEN [text |-> ToFixed1(RDiv(n, RInt(1000000000))), suffix |-> "B"]
     ELSE IF RLe(RInt(1000000), abs)
       THEN [text |-> ToFixed1(RDiv(n, RInt(1000000))), suffix |-> "M"]
     ELSE IF RLe(RInt(1000), abs)
       THEN [text |-> ToFixed1(RDiv(n, RInt(1000))), suffix |-> "k"]
     ELSE [text |-> n, suffix |-> ""]

\* the summary record, one field per alias group; NoRow is null
NoRow == [none |-> TRUE]
SummaryRow(name, year, employees, revenue, scope1, scope2) ==
  [company_name |-> name, year |-> year, total_employees |-> employees,
   total_revenue |-> revenue, Scope1 |-> scope1, Scope2 |-> scope2]
SummaryRows ==
  {SummaryRow(n, y, e, r, s1, s2) :
     n \in {Missing, Str("A")}, y \in {Missing, Num(RInt(2023))},
     e \in {Missing, Num(RInt(10)), Num(RInt(20))},
     r \in {Missing, Num(RInt(1500)), Str("1.5M")},
     s1 \in {Missing, Num(RInt(5)), NumStr(RInt(1200)), Str("n/a")},
     s2 \in {Missing, Num(RInt(7))}}

\* const s = summaryRow || {} and the fields derived from it
Derived(row) ==
  LET s == IF row = NoRow
             THEN SummaryRow(Missing, Missing, Missing, Missing, Missing, Missing)
             ELSE row
  IN [companyName |-> pick(s.company_name, Str("")),
      year |-> pick(s.year, Str("")),
      employees |-> pick(s.total_employees, Str("")),
      revenue |-> pick(s.total_revenue, Str("")),
      scope1 |-> pick(s.Scope1, Str("")),
      scope2 |-> pick(s.Scope2, Str(""))]

\* the callback of the kcards memo
KCards(d) ==
  [Company |-> d.companyName, Year |-> d.year, Employees |-> d.employees,
   Revenue |-> IF d.revenue.k = "num"
                 THEN [k |-> "dollar", v |-> formatNumber(d.revenue.v)]
                 ELSE d.revenue]
\* the dependency array of the kcards memo, as far as the record varies
KCardDeps(d) == <<d.companyName, d.year>>

\* the callback of the summaryBullets memo: the labels of the bullets
summaryBullets(d) ==
  LET s1 == toNumber(d.scope1)
      s2 == toNumber(d.scope2)
  IN (IF ~IsNull(s1) THEN <<[label |-> "Scope 1", value |-> s1]>> ELSE <<>>)
       \o (IF ~IsNull(s2) THEN <<[label |-> "Scope 2", value |-> s2]>> ELSE <<>>)

\* one render: useMemo keeps the memoized value while the dependencies are
\* unchanged; summaryBullets depends on arrays made anew by every render
Render(row, prev) ==
  LET d == Derived(row)
  IN [summaryRow |-> row,
      deps |-> KCardDeps(d),
      kcards |-> IF KCardDeps(d) = prev.deps THEN prev.kcards ELSE KCards(d),
      bullets |-> summaryBullets(d)]

\* the first render, summaryRow null
CardMount ==
  [summaryRow |-> NoRow, deps |-> KCardDeps(Derived(NoRow)),
   kcards |-> KCards(Derived(NoRow)), bullets |-> summaryBullets(Derived(NoRow))]

\* setSummaryRow(row) of a poll result and the render that follows
SetSummaryRow(row) ==
  /\ UNCHANGED <<clientVars, routeVars, paged, calc, inv, retry, chat>>
  /\ cards' = Render(row, cards)

\* setSummaryRow(null) of resetState and the render that follows
CardResetState ==
  /\ UNCHANGED <<clientVars, routeVars, paged, calc, inv, retry, chat>>
  /\ cards.summaryRow # NoRow
  /\ cards' = Render(NoRow, cards)

CardInit == cards = CardMount

SetSummaryRows == \E row \in SummaryRows : SetSummaryRow(row)

CardNext ==
  \/ SetSummaryRows
  \/ CardResetState

\* ------------------------------------------------------------------------
\* Gap statistics of the page component
\* ------------------------------------------------------------------------
MaxFindings == 3

\* severity of a finding: a number, or SevMissing for null / undefined
SevMissing == -1
GapSeverities == {0, 1, 3, 5, SevMissing}

\* framework_question_code: an optional "GRI " prefix, digits (0: none)
\* and whether "-" or ":" follows the digits
Code(gri, digits, sep) == [gri |-> gri, digits |-> digits, sep |-> sep]
GapCodes == {Code(TRUE, 2, TRUE), Code(FALSE, 305, FALSE), Code(TRUE, 2, FALSE)}
Finding(sev, code) == [severity |-> sev, framework_question_code |-> code]
GapLists ==
  UNION {[1..n -> {Finding(s, c) : s \in GapSeverities, c \in GapCodes}] :
           n \in 1..MaxFindings}

\* code.match(/(?:GRI[- ])?(\d+)[-:]/) || code.match(/^(\d+)/); 0 is Other
Category(code) ==
  IF code.digits # 0 /\ code.sep THEN code.digits
  ELSE IF code.digits # 0 /\ ~code.gri THEN code.digits
  ELSE 0

\* severityCounts: String(r.severity ?? "") in { "0", "1", "2", "3" }
severityCounts(findings) ==
  [s \in 0..3 |-> Cardinality({k \in DOMAIN findings : findings[k].severity = s})]
totalRecords(findings) == Len(findings)

\* totalRecords > 0 ? (count / totalRecords) * 100 : 0
SeverityPct(findings) ==
  [s \in 0..3 |->
     IF totalRecords(findings) > 0
       THEN RMul(R(severityCounts(findings)[s], totalRecords(findings)), RInt(100))
       ELSE RInt(0)]

\* griGroups: per category the counters 0..3 and any other key a severity
\* adds; sev = r.severity ?? 3
griGroups(findings) ==
  LET sev(k) == IF findings[k].severity = SevMissing THEN 3
                ELSE findings[k].severity
      cat(k) == Category(findings[k].framework_question_code)
      cats == {cat(k) : k \in DOMAIN findings}
      inCat(c) == {k \in DOMAIN findings : cat(k) = c}
      keys(c) == (0..3) \cup {sev(k) : k \in inCat(c)}
  IN [c \in cats |->
        [s \in keys(c) |-> Cardinality({k \in inCat(c) : sev(k) = s})]]

\* ------------------------------------------------------------------------
\* Evaluations of the pure functions, one per behaviour
\* ------------------------------------------------------------------------
PercentValues ==
  ReductionValues \cup
  {Pct(RInt(42)), Pct(RInt(150)), Num(RInt(100)), Num(R(1001, 10)),
   Num(R(-1, 2))}

NoCalc == [op |-> "none", input |-> <<>>, out |-> <<>>]

CalcBenchLookup(store) ==
  /\ UNCHANGED <<clientVars, routeVars, paged, auxVars>>
  /\ calc = NoCalc
  /\ calc' = [op |-> "benchLookup", input |-> store,
              out |-> [fetch |-> FetchBenchmarkLookup(store),
                       route |-> BenchRouteLookup(store)]]

CalcLineSeries(c) ==
  /\ UNCHANGED <<clientVars, routeVars, paged, auxVars>>
  /\ calc = NoCalc
  /\ calc' = [op |-> "lineSeries", input |-> c, out |-> lineSeries(c)]

CalcSbtiPanel(c) ==
  /\ UNCHANGED <<clientVars, routeVars, paged, auxVars>>
  /\ calc = NoCalc
  /\ calc' = [op |-> "SbtiPanel", input |-> c, out |-> SbtiChart(c)]

CalcPercent(x) ==
  /\ UNCHANGED <<clientVars, routeVars, paged, auxVars>>
  /\ calc = NoCalc
  /\ calc' = [op |-> "percent", input |-> x,
              out |-> [asFrac |-> asFrac(x), pctNum |-> pctNum(x),
                       frac |-> frac(x), pctDisp |-> pctDisp(x)]]

CalcPeers(raw) ==
  /\ UNCHANGED <<clientVars, routeVars, paged, auxVars>>
  /\ calc = NoCalc
  /\ calc' = [op |-> "peers", input |-> raw,
              out |-> [display |-> buildPeerDisplay(raw),
                       medianOf |-> medianOf(buildPeerDisplay(raw)),
                       panel |-> normPeers(raw)]]

CalcAmbition(red, peersCountry, peersRegion) ==
  /\ UNCHANGED <<clientVars, routeVars, paged, auxVars>>
  /\ calc = NoCalc
  /\ calc' = [op |-> "ambition",
              input |-> <<red, peersCountry, peersRegion>>,
              out |-> insightText(red, peersCountry, peersRegion)]

CalcGap(findings) ==
  /\ UNCHANGED <<clientVars, routeVars, paged, auxVars>>
  /\ calc = NoCalc
  /\ calc' = [op |-> "gap", input |-> findings,
              out |-> [severityCounts |-> severityCounts(findings),
                       totalRecords |-> totalRecords(findings),
                       pct |-> SeverityPct(findings),
                       griGroups |-> griGroups(findings)]]

CalcInit == calc = NoCalc

\* one evaluation on inputs drawn from the bounded sets
BenchLookups == calc = NoCalc /\ \E store \in BenchStores : CalcBenchLookup(store)
LineSeriesCalcs == calc = NoCalc /\ \E c \in Companies : CalcLineSeries(c)
SbtiPanelCalcs == calc = NoCalc /\ \E c \in Companies : CalcSbtiPanel(c)
PercentCalcs == calc = NoCalc /\ \E x \in PercentValues : CalcPercent(x)
PeerCalcs == calc = NoCalc /\ \E raw \in PeerLists : CalcPeers(raw)

AmbitionCalcs ==
  calc = NoCalc /\ \E red \in AmbitionTargets, pc \in AmbitionPeers, pr \in AmbitionPeers :
                      CalcAmbition(red, pc, pr)

GapCalcs == calc = NoCalc /\ \E findings \in GapLists : CalcGap(findings)

CalcNext ==
  \/ BenchLookups
  \/ LineSeriesCalcs
  \/ SbtiPanelCalcs
  \/ PercentCalcs
  \/ PeerCalcs
  \/ AmbitionCalcs
  \/ GapCalcs

vars == <<clientVars, routeVars, pureVars>>

Init ==
  /\ ClientInit /\ RouteInit /\ PagedInit /\ CalcInit
  /\ InvInit /\ RetryInit /\ ChatInit /\ CardInit
Next == ClientNext
Spec == Init /\ [][Next]_vars
FairSpec == Spec /\ WF_vars(TimerFires) /\ WF_vars(Delivers)
RouteSpec == Init /\ [][RouteNext]_vars
PagedSpec == Init /\ [][PagedNext]_vars /\ WF_vars(PagedRequest)
CalcSpec == Init /\ [][CalcNext]_vars
InvokeSpec == Init /\ [][InvokeNext]_vars
RetrySpec == Init /\ [][RetryNext]_vars
ChatSpec == Init /\ [][ChatNext]_vars
CardSpec == Init /\ [][CardNext]_vars

\* ------------------------------------------------------------------------
\* Properties of the poller
\* ------------------------------------------------------------------------
InFlightFor(id, batch) ==
  {i \in DOMAIN inflight : inflight[i].id = id /\ inflight[i].batch = batch}
LiveTicks == {i \in DOMAIN inflight :
                inflight[i].src = "tick" /\ ~inflight[i].cancelled}

\* C1: the stored artifacts and allReady come only from a response to a
\* fetch issued for the current pdfId; a response for a stale id never
\* updates summaryRow, bench, gapData or allReady.
C1_NoStaleResult ==
  /\ summaryRow \in {Null, pdfId}
  /\ bench \in {Null, pdfId}
  /\ gapData \in {Null, pdfId}
  /\ allReady => pdfId # Null

\* C2: at most one unified fetch for the current pdfId is in flight: no
\* two fetches issued by retryFetch or by the current run of the polling
\* effect overlap.
C2_SingleFetchInFlight ==
  pdfId # Null =>
    Cardinality({i \in InFlightFor(pdfId, batchPath) : ~inflight[i].cancelled}) <= 1

\* C3: allReady is terminal: while allReady holds the poller has no fetch
\* in flight, starts none and has no cycle scheduled.
C3_AllReadyTerminal ==
  allReady => /\ lastTickFetch = NoFetch
              /\ LiveTicks = {}
              /\ timers = {}

\* C4: if pdfId stays fixed from some point on and every unified fetch for
\* it then answers ready.all = true, the client eventually has allReady
\* with the summary, benchmark and gap of that id stored.
C4_EventuallyReady ==
  \A id \in Ids :
    <>[](pdfId = id /\ id \in answersReady)
      => <>(allReady /\ summaryRow = id /\ bench = id /\ gapData = id)

\* C5: while pdfId is set and allReady is false the poller is never
\* stopped: a cycle is in flight or the next one is scheduled, also right
\* after a cycle that ended in an error or a not-ready answer.
C5_FailedCycleReschedules ==
  (pdfId # Null /\ ~allReady) =>
     \/ \E i \in LiveTicks : inflight[i].id = pdfId /\ inflight[i].batch = batchPath
     \/ \E t \in timers : ~t.cancelled /\ t.id = pdfId /\ t.batch = batchPath

C5_Witness ==
  /\ lastDelivery = "error"
  /\ pdfId # Null
  /\ ~allReady
  /\ \E t \in timers : t.id = pdfId
  /\ LiveTicks = {}

\* C6: after pdfId or batchPath changed or was cleared, no timer of the
\* previous run is pending and every fetch the poller issues is for the
\* current pdfId and batchPath.
C6_NoFetchForOldId ==
  /\ lastTickFetch # NoFetch => lastTickFetch = [id |-> pdfId, batch |-> batchPath]
  /\ \A t \in timers : ~t.cancelled /\ t.id = pdfId /\ t.batch = batchPath

C6_Witness ==
  /\ lastCleared
  /\ pdfId = Null
  /\ timers = {}

\* ------------------------------------------------------------------------
\* Properties of the server routes
\* ------------------------------------------------------------------------
ValidJson(file) ==
  file.kind = "data" /\ Len(file.text) = 1 /\ file.text[1] # Garbage
Malformed(file) ==
  file.kind = "data" /\ file.text # <<>> /\ ~ValidJson(file)
ReadsAt(paths) == SelectSeq(reads, LAMBDA e : e.path \in paths)
SeqRange(q) == {q[k] : k \in DOMAIN q}
FetchAnswered == route = "fetch" /\ rpc = "done" /\ reads # <<>>
CandidateList ==
  IF route = "fetch" THEN GapPatterns
  ELSE IF route = "gap" THEN GapCandidates
  ELSE BenchCandidates
CandidateReads ==
  IF route = "fetch" THEN ReadsAt(SeqRange(GapPatterns)) ELSE reads
IsNotFound(e) == ~e.res.ok /\ ~e.res.thrown /\ e.res.status = 404

\* C7: in every unified fetch response ready.all is true iff the three
\* ready flags are true, and when ready.all is true none of the payloads
\* summary, benchmark, gap is null.
C7_ReadyAllConsistent ==
  (route = "fetch" /\ rpc = "done" /\ resp.status = 200) =>
    LET b == resp.body
    IN /\ b.ready.all <=> (b.ready.summary /\ b.ready.benchmark /\ b.ready.gap)
       /\ b.ready.all => (b.summary # JNull /\ b.benchmark # JNull /\ b.gap # JNull)

\* C8: the unified fetch always answers 200 once configured, and each ready
\* flag and payload is decided by the files met at its own artifact's
\* paths only, whatever the reads of the other artifacts did.
C8_ArtifactIsolation ==
  FetchAnswered =>
    LET b == resp.body
        batch == ReadsAt({FetchBatchPath})
        bm == ReadsAt({FetchBenchPath})
        gaps == ReadsAt(SeqRange(GapPatterns))
        gapOk == {k \in DOMAIN gaps : ValidJson(gaps[k].file)}
    IN /\ resp.status = 200
       /\ Len(bm) = 1
       /\ b.ready.benchmark = ValidJson(bm[1].file)
       /\ b.benchmark = IF ValidJson(bm[1].file) THEN bm[1].file.text[1] ELSE JNull
       /\ b.ready.gap = (gapOk # {})
       /\ b.gap = IF gapOk # {} THEN gaps[CHOOSE k \in gapOk : TRUE].file.text[1]
                                ELSE JNull
       /\ b.ready.summary = (b.summary # JNull)
       /\ (batch = <<>> \/ ~ValidJson(batch[1].file)) => b.summary = JNull
       /\ (batch # <<>> /\ ValidJson(batch[1].file)
             /\ batch[1].file.text[1].t = "object")
            => b.summary = IF RowPdfId(batch[1].file.text[1]) = reqId
                             THEN batch[1].file.text[1] ELSE JNull

C8_Witness ==
  /\ FetchAnswered
  /\ resp.status = 200
  /\ resp.body.ready.summary /\ resp.body.ready.benchmark /\ ~resp.body.ready.gap
  /\ \E e \in SeqRange(ReadsAt(SeqRange(GapPatterns))) : e.file = Throws
  /\ \E e \in SeqRange(ReadsAt(SeqRange(GapPatterns))) : Malformed(e.file)
  /\ \E e \in SeqRange(ReadsAt(SeqRange(GapPatterns))) : e.file = Status(500)

\* C9: candidates are read in list order, every candidate read before the
\* last one read was a 404 (the first read that is not a 404 decides and
\* ends the lookup), a successful last read gives the content answered,
\* and NotFound is answered only if every candidate was a 404.
C9_FirstNon404Decides ==
  (rpc = "done" /\ CandidateReads # <<>>) =>
    LET cr == CandidateReads
        last == cr[Len(cr)]
    IN /\ \A k \in DOMAIN cr : cr[k].path = CandidateList[k]
       /\ \A k \in 1..(Len(cr) - 1) : IsNotFound(cr[k])
       /\ last.res.ok =>
            /\ resp.status = 200
            /\ (IF route = "fetch" THEN resp.body.gap ELSE resp.body.artifact)
                 = last.res.data
       /\ (route # "fetch" /\ resp.status = 404) =>
            (Len(cr) = Len(CandidateList) /\ \A k \in DOMAIN cr : IsNotFound(cr[k]))

\* C10: a benchmark or gap artifact that was read but does not parse as
\* JSON is not reported like an absent one (ready flag false, payload
\* null, no error indication in the response).
C10_MalformedDistinct ==
  (FetchAnswered /\ resp.status = 200) =>
    LET b == resp.body
        bm == ReadsAt({FetchBenchPath})
        gaps == ReadsAt(SeqRange(GapPatterns))
    IN /\ Malformed(bm[1].file) =>
            ~(~b.ready.benchmark /\ b.benchmark = JNull /\ "error" \notin DOMAIN b)
       /\ ((\E k \in DOMAIN gaps : Malformed(gaps[k].file)) /\ ~b.ready.gap) =>
            ~(b.gap = JNull /\ "error" \notin DOMAIN b)

\* The gap route and the benchmark route, taken alone, do satisfy the
\* candidate-path contract.
C9_OtherRoutes == route # "fetch" => C9_FirstNon404Decides


\* ------------------------------------------------------------------------
\* Properties of the benchmark lookup, the summary lookup and the
\* missing configuration
\* ------------------------------------------------------------------------
\* every candidate is absent (404) or holds valid JSON
CleanStore(store) ==
  \A k \in DOMAIN store : store[k] = Status(404) \/ ValidJson(store[k])

\* C11: when every benchmark candidate object of the document is either
\* absent or valid JSON, the unified fetch reports ready.benchmark, with
\* the content of a candidate, whenever one of the three exists, and it
\* finds a benchmark exactly when the benchmark route finds one.
C11_BenchmarkCandidates ==
  (calc.op = "benchLookup" /\ CleanStore(calc.input)) =>
    LET store == calc.input
        valid == {k \in DOMAIN store : ValidJson(store[k])}
    IN /\ valid # {} =>
            /\ calc.out.fetch.ok
            /\ \E k \in valid : calc.out.fetch.data = store[k].text[1]
       /\ calc.out.fetch.ok <=> calc.out.route.ok

\* the records of a batch file: the items of a JSON array, else one record
\* per line
BatchRecords(text) ==
  IF Len(text) = 1 /\ text[1].t = "array" THEN text[1].items ELSE text

\* a single JSON record, a JSON array of records, or NDJSON records
WellFormedBatch(file) ==
  /\ file.kind = "data"
  /\ file.text # <<>>
  /\ \A i \in DOMAIN BatchRecords(file.text) :
       BatchRecords(file.text)[i].t = "object"

\* C12: from a batch file that is one JSON record, a JSON array of
\* records or newline-delimited records, the summary lookup returns a
\* record whose document id is the requested one, and null only when no
\* record carries that id.
C12_SummaryLookup ==
  \A k \in DOMAIN reads :
    (route = "fetch" /\ reads[k].path = FetchBatchPath
       /\ WellFormedBatch(reads[k].file)) =>
      LET recs == BatchRecords(reads[k].file.text)
          carrying == {i \in DOMAIN recs : RowPdfId(recs[i]) = reqId}
      IN IF carrying = {} THEN summaryData = JNull
         ELSE \E i \in carrying : summaryData = recs[i]

\* C13: a fetch that failed because the configuration is missing is not
\* retried: the step that delivers that failure schedules no further
\* cycle of the poller.
C13_ConfigMissingNotRetried ==
  [][lastDelivery' = "unconfigured" => timers' \subseteq timers]_vars

\* the unified fetch answers a missing configuration without any read
C13_NoReadWhenUnconfigured ==
  (route = "fetch" /\ rpc = "done" /\ resp.status = 500
     /\ resp.body = [error |-> "Missing env"]) => reads = <<>>

\* ------------------------------------------------------------------------
\* Properties of the paged read
\* ------------------------------------------------------------------------
\* the requests and the payload of the loop so far, on a file of paged.n
\* bytes served min(CHUNK, n - offset) bytes per request
PagedShape ==
  paged.pc # "idle" =>
    LET n == paged.n
        reqs == paged.requests
        pay == paged.payload
    IN /\ \A i \in DOMAIN reqs : reqs[i] = (i - 1) * CHUNK
       /\ Len(pay) <= Len(reqs)
       /\ \A i \in DOMAIN pay :
            /\ pay[i].offset = reqs[i]
            /\ pay[i].bytes = Min(CHUNK, n - reqs[i])
            /\ pay[i].bytes > 0
            /\ i < Len(pay) => pay[i].bytes = CHUNK
       /\ paged.pc = "loop" =>
            /\ Len(pay) = Len(reqs)
            /\ \A i \in DOMAIN pay : pay[i].bytes = CHUNK
            /\ paged.offset = Len(reqs) * CHUNK
       /\ paged.pc = "done" =>
            /\ Len(reqs) = n \div CHUNK + 1
            /\ IF pay = <<>> THEN n = 0
               ELSE pay[Len(pay)].offset + pay[Len(pay)].bytes = n

\* C14: on a file of N bytes the paged read terminates; its requests are
\* at offsets 0, CHUNK, 2*CHUNK, ..., each byte range requested once; it
\* stops at the first short or empty chunk; the payload is the chunks
\* returned, in order, and covers the N bytes.
C14_PagedRead ==
  /\ []PagedShape
  /\ [](paged.pc = "loop" => <>(paged.pc = "done"))

C14_Witness ==
  /\ paged.pc = "done"
  /\ Len(paged.payload) >= 2
  /\ paged.payload[Len(paged.payload)].bytes < CHUNK
  /\ paged.offset = paged.n

\* ------------------------------------------------------------------------
\* Properties of the trajectories
\* ------------------------------------------------------------------------
Provided(x) == x.k = "num"

ValidYears(c) ==
  /\ c.company
  /\ c.sbti_start_year # YearNaN /\ c.sbti_target_year # YearNaN
  /\ c.sbti_start_year < c.sbti_target_year

\* a sequence of values that never turns back on its way from its first
\* to its last element
Monotonic(ys) ==
  \A i \in 1..(Len(ys) - 1) :
    /\ RLe(ys[1], ys[Len(ys)]) => RLe(ys[i], ys[i + 1])
    /\ RLe(ys[Len(ys)], ys[1]) => RLe(ys[i + 1], ys[i])

\* one point per year from start to target, from `first` (when given) to
\* `last` (when given), monotonic
Interpolates(c, years, ys, first, last) ==
  /\ Len(ys) = c.sbti_target_year - c.sbti_start_year + 1
  /\ \A i \in DOMAIN years : years[i] = c.sbti_start_year + i - 1
  /\ Provided(first) => ys[1] = first.v
  /\ Provided(last) => ys[Len(ys)] = last.v
  /\ Monotonic(ys)

PointsX(series) == [i \in DOMAIN series.points |-> series.points[i].x]
PointsY(series) == [i \in DOMAIN series.points |-> series.points[i].y]
ChartYears(chart) == [i \in DOMAIN chart |-> chart[i].year]
ChartScope1(chart) == [i \in DOMAIN chart |-> chart[i].scope1]
ChartScope2(chart) == [i \in DOMAIN chart |-> chart[i].scope2]
ChartScope12(chart) == [i \in DOMAIN chart |-> chart[i].scope12]

\* C15: with integer years start < end, every series that is drawn has
\* exactly end - start + 1 points, one per year, starts at the baseline,
\* ends at the target and is monotonic in between, in the page component
\* and in SbtiPanel.
C15_Interpolation ==
  /\ (calc.op = "lineSeries" /\ calc.out # <<>>) =>
       LET c == calc.input
           ok(k, b, t) ==
             calc.out[k].points # <<>> =>
               Interpolates(c, PointsX(calc.out[k]), PointsY(calc.out[k]), b, t)
       IN /\ ValidYears(c)
          /\ ok(1, c.scope_1, c.sbti_scope_1_target)
          /\ ok(2, c.scope_2, c.sbti_scope_2_target)
          /\ ok(3, c.sbti_scope_1_2, c.sbti_scope_1_2_target)
  /\ (calc.op = "SbtiPanel" /\ calc.out # <<>>) =>
       LET c == calc.input
           ok(ys, b, t) ==
             ~IsNull(ys[1]) => Interpolates(c, ChartYears(calc.out), ys, b, t)
       IN /\ ValidYears(c)
          /\ ok(ChartScope1(calc.out), c.scope_1, c.sbti_scope_1_target)
          /\ ok(ChartScope2(calc.out), c.scope_2, c.sbti_scope_2_target)
          /\ ok(ChartScope12(calc.out), Missing, Missing)

C15_Witness ==
  /\ calc.op = "lineSeries"
  /\ calc.out # <<>>
  /\ Len(calc.out[1].points) >= 3
  /\ calc.out[1].points[1].y = RInt(100)
  /\ calc.out[1].points[Len(calc.out[1].points)].y = RInt(40)

\* what the derivation order can resolve from the fields the profile
\* provides
HasS12b(c) ==
  Provided(c.sbti_scope_1_2) \/ (Provided(c.scope_1) /\ Provided(c.scope_2))
HasS12tBeforeSplit(c) ==
  \/ Provided(c.sbti_scope_1_2_target)
  \/ (Provided(c.sbti_scope_1_2_reduction_pct) /\ HasS12b(c))
CanSplit(c) ==
  /\ HasS12tBeforeSplit(c)
  /\ Provided(c.scope_1) /\ Provided(c.scope_2)
  /\ RLt(RInt(0), RAdd(c.scope_1.v, c.scope_2.v))
HasS1t(c) == Provided(c.sbti_scope_1_target) \/ CanSplit(c)
HasS2t(c) == Provided(c.sbti_scope_2_target) \/ CanSplit(c)
HasS12t(c) == HasS12tBeforeSplit(c) \/ (HasS1t(c) /\ HasS2t(c))

\* C16: a scope whose baseline or target the profile does not provide and
\* the derivation order cannot fill has no points in the page component
\* and no values in SbtiPanel.
C16_NoFabricatedTrajectory ==
  /\ (calc.op = "lineSeries" /\ calc.out # <<>>) =>
       LET c == calc.input
       IN /\ calc.out[1].points # <<>> => (Provided(c.scope_1) /\ HasS1t(c))
          /\ calc.out[2].points # <<>> => (Provided(c.scope_2) /\ HasS2t(c))
          /\ calc.out[3].points # <<>> => (HasS12b(c) /\ HasS12t(c))
  /\ (calc.op = "SbtiPanel" /\ calc.out # <<>>) =>
       LET c == calc.input
           drawn(ys) == \E i \in DOMAIN ys : ~IsNull(ys[i])
       IN /\ drawn(ChartScope1(calc.out)) => (Provided(c.scope_1) /\ HasS1t(c))
          /\ drawn(ChartScope2(calc.out)) => (Provided(c.scope_2) /\ HasS2t(c))
          /\ drawn(ChartScope12(calc.out)) => (HasS12b(c) /\ HasS12t(c))

\* the page component alone draws nothing it cannot resolve
C16_PageComponent == calc.op = "lineSeries" => C16_NoFabricatedTrajectory

\* a reduction value read as a fraction: [0,1] as is, (1,100] divided by 100
InRange(v) == RLe(RInt(0), v) /\ RLe(v, RInt(100))
AsFraction(v) == IF RLe(v, RInt(1)) THEN v ELSE RDiv(v, RInt(100))

LastY(series) == series.points[Len(series.points)].y

\* the case of C17: both scope baselines with a positive sum, a reduction
\* value in range, no explicit target
DerivationCase(c) ==
  /\ ValidYears(c)
  /\ Provided(c.scope_1) /\ Provided(c.scope_2)
  /\ RLt(RInt(0), RAdd(c.scope_1.v, c.scope_2.v))
  /\ Provided(c.sbti_scope_1_2_reduction_pct)
  /\ InRange(c.sbti_scope_1_2_reduction_pct.v)
  /\ ~Provided(c.sbti_scope_1_target) /\ ~Provided(c.sbti_scope_2_target)
  /\ ~Provided(c.sbti_scope_1_2_target)

\* the targets the three series end at are (s1b + s2b)(1 - r) and its
\* shares s1b/(s1b + s2b) and s2b/(s1b + s2b)
DerivedFromSum(c, out) ==
  LET sum == RAdd(c.scope_1.v, c.scope_2.v)
      r == AsFraction(c.sbti_scope_1_2_reduction_pct.v)
      t12 == RMul(sum, RSub(RInt(1), r))
  IN /\ out # <<>>
     /\ \A k \in 1..3 : out[k].points # <<>>
     /\ LastY(out[3]) = t12
     /\ LastY(out[1]) = RMul(t12, RDiv(c.scope_1.v, sum))
     /\ LastY(out[2]) = RMul(t12, RDiv(c.scope_2.v, sum))

\* C17 as stated: with Scope 1 and Scope 2 baselines of positive sum, a
\* reduction value r in [0,1] or (1,100] and no explicit target, the
\* combined target is (s1b + s2b)(1 - r) and it is split in proportion to
\* the baselines.
C17_TargetDerivation ==
  (calc.op = "lineSeries" /\ DerivationCase(calc.input)) =>
    DerivedFromSum(calc.input, calc.out)

\* C17, amended: the same when the profile carries no explicit combined
\* baseline (sbti_scope_1_2) either; baselines 100 and 50 with reduction
\* 42 give 87, 58 and 29.
C17_TargetDerivationFromSum ==
  (calc.op = "lineSeries" /\ DerivationCase(calc.input)
     /\ ~Provided(calc.input.sbti_scope_1_2)) =>
    DerivedFromSum(calc.input, calc.out)

C17_Witness ==
  /\ calc.op = "lineSeries"
  /\ DerivationCase(calc.input)
  /\ calc.input.scope_1 = Num(RInt(100))
  /\ calc.input.scope_2 = Num(RInt(50))
  /\ calc.input.sbti_scope_1_2 = Missing
  /\ calc.input.sbti_scope_1_2_reduction_pct = Num(RInt(42))
  /\ LastY(calc.out[3]) = RInt(87)
  /\ LastY(calc.out[1]) = RInt(58)
  /\ LastY(calc.out[2]) = RInt(29)

\* a reduction value that is negative, above 100 or not a number
OutOfRange(x) ==
  x.k = "text" \/ (x.k \in {"num", "pct"} /\ ~InRange(x.v))

\* C18: no consumer coerces an out-of-range reduction value: asFrac,
\* pctNum, frac and pctDisp give "not available" for it, and lineSeries
\* derives no combined target from it.
C18_NoCoercion ==
  /\ (calc.op = "percent" /\ OutOfRange(calc.input)) =>
       /\ IsNull(calc.out.asFrac)
       /\ IsNull(calc.out.pctNum)
       /\ IsNull(calc.out.frac)
       /\ calc.out.pctDisp = Missing
  /\ (calc.op = "lineSeries" /\ calc.out # <<>>
        /\ OutOfRange(calc.input.sbti_scope_1_2_reduction_pct)
        /\ ~Provided(calc.input.sbti_scope_1_2_target)
        /\ ~(Provided(calc.input.sbti_scope_1_target)
               /\ Provided(calc.input.sbti_scope_2_target))) =>
       calc.out[3].points = <<>>

\* the range-checked consumers alone
C18_AsFracAndPctNum ==
  (calc.op = "percent" /\ OutOfRange(calc.input)) =>
    (IsNull(calc.out.asFrac) /\ IsNull(calc.out.pctNum))

\* ------------------------------------------------------------------------
\* Properties of the peer statistics
\* ------------------------------------------------------------------------
SeqValues(s) == {s[i] : i \in DOMAIN s}
RMin(S) == CHOOSE x \in S : \A y \in S : RLe(x, y)
RMax(S) == CHOOSE x \in S : \A y \in S : RLe(y, x)

\* the standard median of a non-empty list: the values with at most half
\* of the list below them and at most half above them are the middle one
\* (odd count) or the two middle ones (even count); their midpoint
StdMedian(s) ==
  LET below(v) == Cardinality({i \in DOMAIN s : RLt(s[i], v)})
      above(v) == Cardinality({i \in DOMAIN s : RLt(v, s[i])})
      mid == {v \in SeqValues(s) : 2 * below(v) <= Len(s) /\ 2 * above(v) <= Len(s)}
  IN RDiv(RAdd(RMin(mid), RMax(mid)), RInt(2))
MedianOrNull(s) == IF s = <<>> THEN RNull ELSE StdMedian(s)

NonNull(s) == SelectSeq(s, LAMBDA x : ~IsNull(x))
PeerRows(rows) ==
  SelectSeq(rows, LAMBDA r : r.Company \notin {"**Average**", "**Median**"})
MedianRow(rows) == CHOOSE r \in SeqValues(rows) : r.Company = "**Median**"

\* the values each median is computed over
DisplayNums(raw) == NonNull([i \in DOMAIN raw |-> pctNum(raw[i])])
AmbitionVals(rows) ==
  NonNull([i \in DOMAIN PeerRows(rows) |-> NumberSansPct(PeerRows(rows)[i].pct)])
PanelNums(raw) == NonNull([i \in DOMAIN raw |-> toPctNum(pctDisp(raw[i]))])

\* C19: the median of buildPeerDisplay, of insightText.medianOf and of
\* SbtiPanel.normPeers is the standard median of the values it is computed
\* over: [10,20,30,40] gives 25 and [10,20,30] gives 20.
C19_StandardMedian ==
  calc.op = "peers" =>
    /\ MedianRow(calc.out.display).pct_num = MedianOrNull(DisplayNums(calc.input))
    /\ calc.out.medianOf =
         (IF AmbitionVals(calc.out.display) = <<>> THEN RNull
          ELSE RDiv(StdMedian(AmbitionVals(calc.out.display)), RInt(100)))
    /\ MedianRow(calc.out.panel).pct = disp(MedianOrNull(PanelNums(calc.input)))

\* buildPeerDisplay and medianOf alone do compute the standard median
C19_PageComponent ==
  calc.op = "peers" =>
    /\ MedianRow(calc.out.display).pct_num = MedianOrNull(DisplayNums(calc.input))
    /\ calc.out.medianOf =
         (IF AmbitionVals(calc.out.display) = <<>> THEN RNull
          ELSE RDiv(StdMedian(AmbitionVals(calc.out.display)), RInt(100)))

\* C20: the median the ambition classification uses is taken over the
\* successfully parsed peer percentages only, so it is the value of the
\* Median row of the same peer list (as a fraction).
C20_AmbitionMedianIsMedianRow ==
  calc.op = "peers" =>
    LET row == MedianRow(calc.out.display)
    IN IF IsNull(row.pct_num) THEN IsNull(calc.out.medianOf)
       ELSE /\ ~IsNull(calc.out.medianOf)
            /\ RMul(calc.out.medianOf, RInt(100)) = row.pct_num

\* ------------------------------------------------------------------------
\* Properties of the ambition label
\* ------------------------------------------------------------------------
AmbitionLabels ==
  {"unclear", "more ambitious than both", "less ambitious than both",
   "above country below region", "above region below country",
   "roughly in line"}

\* the company is at least one percentage point above / below a median
AboveByEps(c, m) == ~IsNull(m) /\ RLe(RAdd(m, R(1, 100)), c)
BelowByEps(c, m) == ~IsNull(m) /\ RLe(c, RSub(m, R(1, 100)))

\* C21: the ambition label is one of the six labels; it is 'unclear' iff the
\* company fraction is missing, 'more ambitious than both' iff the company is
\* at least 0.01 above both medians, 'less ambitious than both' iff it is at
\* least 0.01 below both, a mixed label iff it is 0.01 above one median and
\* 0.01 below the other, and 'roughly in line' in every other case.
C21_AmbitionLabel ==
  calc.op = "ambition" =>
    LET c == calc.out.companyFrac
        pc == calc.out.pcMedian
        pr == calc.out.prMedian
        l == calc.out.ambition
        known == ~IsNull(c)
    IN /\ l \in AmbitionLabels
       /\ (l = "unclear") <=> ~known
       /\ (l = "more ambitious than both") <=>
            (known /\ AboveByEps(c, pc) /\ AboveByEps(c, pr))
       /\ (l = "less ambitious than both") <=>
            (known /\ BelowByEps(c, pc) /\ BelowByEps(c, pr))
       /\ (l = "above country below region") <=>
            (known /\ AboveByEps(c, pc) /\ BelowByEps(c, pr))
       /\ (l = "above region below country") <=>
            (known /\ AboveByEps(c, pr) /\ BelowByEps(c, pc))

\* a company exactly 0.01 above the country median and 0.01 below the
\* regional one gets the mixed label
C21_Witness ==
  /\ calc.op = "ambition"
  /\ calc.out.companyFrac = R(42, 100)
  /\ calc.out.pcMedian = R(41, 100)
  /\ calc.out.prMedian = R(43, 100)
  /\ calc.out.ambition = "above country below region"

\* ------------------------------------------------------------------------
\* Properties of the invoke route
\* ------------------------------------------------------------------------
StepNames == [k \in DOMAIN inv.steps |-> inv.steps[k].name]
Issued(name) == \E k \in DOMAIN inv.steps : inv.steps[k].name = name

C23_WitnessNoJob ==
  /\ inv.pc = "done"
  /\ inv.jobEnv = "unset"
  /\ StepNames = <<"text", "serving", "put">>
  /\ inv.resp.ok /\ inv.resp.runId = NoRunId

\* ------------------------------------------------------------------------
\* Properties of the dbfs-read route
\* ------------------------------------------------------------------------
\* an answer after which fetchWithRetry may try again
Retryable(up) == up.kind = "throws" \/ (up.kind = "status" /\ up.status # 404)
LastChunk == retry.attempts[Len(retry.attempts)]

\* C27: every chunk takes at most three attempts; an attempt is followed by
\* another one for the same chunk only if it met a non-OK status other than
\* 404 or a thrown error; after an OK answer or a 404 no attempt for that
\* chunk is pending.
C27_AtMostThreeAttempts ==
  \A c \in DOMAIN retry.attempts :
    LET a == retry.attempts[c]
    IN /\ Len(a) <= 3
       /\ \A k \in 1..(Len(a) - 1) : Retryable(a[k])
       /\ c < Len(retry.attempts) => (a # <<>> /\ a[Len(a)] = UpOk("full"))
       /\ (c = Len(retry.attempts) /\ retry.pc = "attempt") =>
            (Len(a) < 3 /\ \A k \in DOMAIN a : Retryable(a[k]))

\* a chunk read at the third attempt, after a 503 and a network error
C27_Witness ==
  /\ retry.pc = "done"
  /\ retry.attempts = <<<<UpStatus(503), UpThrows, UpOk("short")>>>>
  /\ retry.resp.status = 200

\* C28: when the last attempt for a chunk met a non-OK status, the route
\* answers with that status and a 'DBFS read failed <status>' body.
C28_UpstreamStatusPassedOn ==
  (retry.pc = "done" /\ retry.attempts # <<>> /\ LastChunk # <<>>
     /\ LastChunk[Len(LastChunk)].kind = "status") =>
    retry.resp = ReadFailed(LastChunk[Len(LastChunk)].status)

\* ------------------------------------------------------------------------
\* Properties of the chat
\* ------------------------------------------------------------------------
\* C29: every element of the chat list is a { role, content } message of a
\* request sent in the current session (after the last resetState).
C29_ResetIsolatesChat ==
  \A k \in DOMAIN chat.messages :
    /\ chat.messages[k].role \in {"user", "ai"}
    /\ chat.messages[k].sent = chat.session

\* ------------------------------------------------------------------------
\* Properties of the key cards and the highlights
\* ------------------------------------------------------------------------
BulletLabels == {cards.bullets[k].label : k \in DOMAIN cards.bullets}
Absent(field) ==
  cards.summaryRow = NoRow \/ cards.summaryRow[field] = Missing

\* C25: when the summary record holds no Scope 1 (Scope 2) value, the
\* highlights hold no 'Scope 1' ('Scope 2') bullet.
C25_AbsentScopeNoBullet ==
  /\ Absent("Scope1") => "Scope 1" \notin BulletLabels
  /\ Absent("Scope2") => "Scope 2" \notin BulletLabels

\* C30: the Employees and Revenue cards hold the values resolved from the
\* current summaryRow.
C30_CardsReflectSummary ==
  /\ cards.kcards.Employees = Derived(cards.summaryRow).employees
  /\ cards.kcards.Revenue = KCards(Derived(cards.summaryRow)).Revenue

\* ------------------------------------------------------------------------
\* Properties of the gap statistics
\* ------------------------------------------------------------------------
\* the findings of the input whose severity is s
WithSeverity(s) == {k \in DOMAIN calc.input : calc.input[k].severity = s}
KnownFindings == {k \in DOMAIN calc.input : calc.input[k].severity \in 0..3}
RECURSIVE SumOver(_, _)
SumOver(f, S) ==
  IF S = {} THEN 0
  ELSE LET x == CHOOSE y \in S : TRUE IN f[x] + SumOver(f, S \ {x})

\* C22: the count of each severity 0..3 is the number of findings with that
\* severity, and its percentage is count / T * 100, T the number of findings
\* whose severity is one of 0..3.
C22_OverallDistribution ==
  calc.op = "gap" =>
    \A s \in 0..3 :
      /\ calc.out.severityCounts[s] = Cardinality(WithSeverity(s))
      /\ KnownFindings # {} =>
           calc.out.pct[s] =
             RMul(R(Cardinality(WithSeverity(s)), Cardinality(KnownFindings)),
                  RInt(100))

\* C24: a category keeps counters for the severities 0..3 only, and for
\* each severity s the counts for s of all categories add up to the
\* overall count for s (so a finding with a missing or unknown severity is
\* counted under none of 0..3).
C24_CategoriesMatchOverall ==
  calc.op = "gap" =>
    LET groups == calc.out.griGroups
    IN /\ \A c \in DOMAIN groups : DOMAIN groups[c] = 0..3
       /\ \A s \in 0..3 :
            SumOver([c \in DOMAIN groups |-> groups[c][s]], DOMAIN groups)
              = calc.out.severityCounts[s]

\* ------------------------------------------------------------------------
\* Properties of the round trip between the invoke and the fetch route
\* ------------------------------------------------------------------------
\* C26: the pdfId answered by the invoke route finds a record in the batch
\* file the route wrote, whenever the fetch route can read that file.
C26_RoundTrip ==
  (inv.pc = "done" /\ inv.resp.ok /\ Issued("put")
     /\ DbfsReadJSON(Data(inv.ndjson)).ok) =>
    ReadSummaryFromBatch(Data(inv.ndjson), inv.resp.pdfId) # JNull

====
